---- MODULE Spec2Model ----
(***************************************************************************)
(* A model of parts of openvm, each with a specification of its own:       *)
(*   Spec      the memory (system/memory/online.rs)                        *)
(*   SpecHint  the RV32 hint-store core chip (hintstore/core.rs)           *)
(*   SpecTree  the memory merkle tree (system/memory/tree/mod.rs)          *)
(*   SpecAlu   the base ALU core chip and its AIR (base_alu/core.rs)       *)
(*   SpecSeg   the execution loop and its segments (arch/config.rs)        *)
(*   SpecNop   the NOP of the terminate/nop chip (nop/tests.rs)            *)
(*   SpecFa    the field arithmetic trace (field_arithmetic/trace.rs)      *)
(*   SpecVh    the vec-heap adapters (adapters/rv32_vec_heap.rs,           *)
(*             adapters/vec_heap_two_reads.rs)                             *)
(*   SpecJal   the native JAL core chip and its AIR (jal/core.rs)          *)
(* While one part runs, the variables of the others stay idle.             *)
(*                                                                         *)
(* Field elements are modelled by their canonical representatives          *)
(* 0 .. FieldOrder-1.  The timestamp and the amounts added to it keep      *)
(* their 32-bit width: such a number is the pair <<hi, lo>> of its two     *)
(* 16-bit halves, standing for hi * 2^16 + lo (TLC's integers end below    *)
(* 2^32).  Pointers stay small, so pointer + i is plain addition.          *)
(***************************************************************************)
EXTENDS Integers, Sequences, FiniteSets, TLC

(***************************************************************************)
(* Program constants.                                                      *)
(***************************************************************************)
\* 2^16: a u32 (timestamp, amount) is two halves below this.
HalfModulus == 65536

\* The order of the BabyBear field the tests instantiate F with.
FieldOrder == 2013265921

\* offline::INITIAL_TIMESTAMP, the reserved initial value.
INITIAL_TIMESTAMP == 0

\* adapters::RV32_REGISTER_NUM_LIMBS
RV32_REGISTER_NUM_LIMBS == 4

\* The first address space of the memory: as_offset.
AS_OFFSET == 1

(***************************************************************************)
(* Bounds of the model.                                                    *)
(***************************************************************************)
\* The number of calls made on one Memory.
MaxCalls == 2

\* The largest start pointer of a call.
MaxPtr == 1

\* The largest const generic N a call is instantiated with.
MaxLen == 4

\* The largest N is_power_of_two is looked at for.
MaxPow == 16

\* The longest initial hint stream.
MaxHintLen == 8

\* The largest word-aligned program counter index of an executed instruction.
MaxPcIndex == 2

\* The address spaces of the calls: the immediate space 0 and a memory space.
AddressSpaces == {0, 1}

Pointers == 0 .. MaxPtr

Lens == 0 .. MaxLen

\* The first elements of the arrays handed to write; the array of length N
\* that starts with b is b, b+1, .., b+N-1.
Bases == {0, 5}

\* The amounts handed to increment_timestamp_by: 0, 2 and u32::MAX.
Amounts == {<<0, 0>>, <<0, 2>>, <<HalfModulus - 1, HalfModulus - 1>>}

\* The limb values a hint stream holds.
HintVals == {0, 1, 2}

\* The const generic CHUNK the tree is instantiated with.
CHUNK == 2

\* The largest overall height of a tree.
MaxHeight == 2

\* The largest number of entries of a memory image a tree is built of.
MaxEntries == 2

\* The values of the entries of such an image.
TreeVals == {0, 1}

\* The largest number of instructions of a program before its terminate.
MaxProgLen == 2

\* num_nops: the NOPs the test executes one after the other.
NUM_NOPS == 5

\* The largest number of recorded field arithmetic operations.
MaxOps == 5

\* FieldArithmeticAir::BASE_OP: the discriminant of the first arithmetic opcode.
BASE_OP == 6

\* The largest number of blocks an adapter reads through one pointer, or writes.
MaxBlocks == 2

\* openvm_instructions::program::DEFAULT_PC_STEP
DEFAULT_PC_STEP == 4

\* The const generic NUM_LIMBS the ALU chip is instantiated with.
NUM_LIMBS == 4

\* The const generic LIMB_BITS the ALU chip is instantiated with.
LIMB_BITS == 8

\* The opcode offsets of the ALU chip.
AluOffsets == {8}

\* The limbs of the operands: the least and the greatest.
LimbVals == {0, 255}

\* Operands with a one in some limbs, and operands whose limbs mix the bit
\* patterns 1010 and 0110 and a high bit.
BitPatterns ==
    {<<1, 0, 0, 0>>, <<0, 1, 0, 0>>, <<1, 1, 1, 1>>, <<0, 0, 0, 1>>,
     <<10, 6, 255, 128>>, <<6, 10, 128, 255>>, <<10, 10, 6, 6>>}

VARIABLES
    image,           \* the MemoryImage the Memory was built from (empty for Memory::new())
    data,            \* Memory.data: the map Address -> F (its domain: the keys present)
    log,             \* Memory.log: the sequence of MemoryLogEntry
    timestamp,       \* Memory.timestamp: u32
    overflow_checks, \* whether the build panics on integer overflow (debug) or wraps (release)
    panicked,        \* whether a call on the Memory has panicked
    calls,           \* the number of calls made on the Memory so far
    last,            \* the last call on the Memory: its arguments and what it returned
    accesses,        \* the read and write calls that returned, in order, each with its RecordId
    hint_stream,     \* Streams.hint_stream: the queue of field elements
    range_requests,  \* the pairs handed to bitwise_lookup_chip.request_range, in order
    hint_result,     \* what the last execute_instruction of the hint-store chip returned
    hint_initial,    \* the hint stream the chip was set up with
    hint_written,    \* the words the successful instructions handed on to be written, in order
    tree_dims,       \* MemoryDimensions: as_height and address_height
    tree_image,      \* the MemoryImage tree_from_memory is handed
    tree_out,        \* what tree_from_memory built: the partition, the root, the instances
    alu_offset,      \* BaseAluCoreChip.air.offset: the first opcode of the chip's class
    alu_instr,       \* the instruction (its opcode) and the reads handed to the ALU chip
    xor_requests,    \* the pairs handed to xor_lookup_chip.request, in order
    alu_out,         \* what execute_instruction of the ALU chip returned
    seg_program,     \* the program the execution loop runs
    seg_image,       \* the memory image the execution starts from
    seg_run,         \* for each max_segment_len compared: the state of the run
    nop_state,       \* the execution state (pc, timestamp) the next NOP starts from
    nop_records,      \* the execution records of the NOPs executed: from_state and final_state
    fa_ops,          \* ProgramExecution.arithmetic_ops: the recorded field arithmetic operations
    fa_trace,         \* what generate_trace returned: the values row by row and the width
    vh_instr,        \* the adapter (its const generics), the instruction dispatched, the registers and from_state
    vh_memory,       \* the memory controller: its timestamp and the accesses made, in order
    vh_run,           \* how far the instruction is, the rd_val of the read record, the to_pc of the core output, and the state postprocess returned
    jal_instr,       \* the JAL executed: from_pc (u32), the immediate b (a field element), and whether debug assertions are checked
    jal_out          \* what execute_instruction returned: the AdapterRuntimeContext and the JalRecord

memVars == <<image, data, log, timestamp, overflow_checks, panicked, calls, last, accesses>>

hintVars == <<hint_stream, range_requests, hint_result, hint_initial, hint_written>>

treeVars == <<tree_dims, tree_image, tree_out>>

aluVars == <<alu_offset, alu_instr, xor_requests, alu_out>>

segVars == <<seg_program, seg_image, seg_run>>

nopVars == <<nop_state, nop_records>>

faVars == <<fa_ops, fa_trace>>

vhVars == <<vh_instr, vh_memory, vh_run>>

jalVars == <<jal_instr, jal_out>>

vars == <<image, data, log, timestamp, overflow_checks, panicked, calls, last, accesses,
          hint_stream, range_requests, hint_result, hint_initial, hint_written,
          tree_dims, tree_image, tree_out, alu_offset, alu_instr, xor_requests, alu_out,
          seg_program, seg_image, seg_run,
          nop_state, nop_records,
          fa_ops, fa_trace,
          vh_instr, vh_memory, vh_run,
          jal_instr, jal_out>>

(***************************************************************************)
(* Pure helpers.                                                           *)
(***************************************************************************)
RECURSIVE CountOnes(_)
\* usize::count_ones
CountOnes(n) == IF n = 0 THEN 0 ELSE (n % 2) + CountOnes(n \div 2)

\* is_power_of_two as n & (n - 1) == 0 without the n != 0 test: accepts 0.
IsPowerOfTwoOrZero(n) == CountOnes(n) <= 1

\* usize::is_power_of_two: exactly one bit set.
IsPowerOfTwo(n) == CountOnes(n) = 1

\* F::from_canonical_u32: the field element a u32 stands for.
FromCanonicalU32(n) == n % FieldOrder

\* F::ZERO
Zero == 0

\* The pair of halves of a small number.
Wide(n) == <<n \div HalfModulus, n % HalfModulus>>

\* The sum of two numbers given by their halves, its high half unbounded.
AddWide(a, b) ==
    LET lo == a[2] + b[2]
    IN  <<a[1] + b[1] + (lo \div HalfModulus), lo % HalfModulus>>

\* a < b on numbers given by their halves.
LessWide(a, b) == a[1] < b[1] \/ (a[1] = b[1] /\ a[2] < b[2])

\* Whether a + b leaves the u32 range.
Overflows(a, b) == AddWide(a, b)[1] >= HalfModulus

\* u32 addition as it wraps in a build without overflow checks.
WrappingAdd(a, b) == LET s == AddWide(a, b) IN <<s[1] % HalfModulus, s[2]>>

EmptyMap == [a \in {} |-> Zero]

\* HashMap::insert
Insert(m, k, v) == [a \in (DOMAIN m) \cup {k} |-> IF a = k THEN v ELSE m[a]]

\* get with the absent key read as in address space 0: the pointer, not zero.
GetDefaultPointer(m, s, p) == IF <<s, p>> \in DOMAIN m THEN m[<<s, p>>] ELSE p + 1

\* Memory::get: the stored value, or zero for an absent key.
Get(m, s, p) == IF <<s, p>> \in DOMAIN m THEN m[<<s, p>>] ELSE Zero

\* range_array that forgets the offset i: every element read at pointer.
RangeArrayNoOffset(m, s, p, n) == [i \in 1 .. n |-> Get(m, s, p)]

\* Memory::range_array: get at pointer + i for i in 0..N-1.
RangeArray(m, s, p, n) == [i \in 1 .. n |-> Get(m, s, p + i - 1)]

RECURSIVE WriteLoopPrevAfterInsert(_, _, _, _, _, _)
\* The write loop that reads the cell after the insert: returns the new values.
WriteLoopPrevAfterInsert(m, s, p, values, i, prev) ==
    IF i > Len(values) THEN [data |-> m, prev_data |-> prev]
    ELSE LET m2 == Insert(m, <<s, p + i - 1>>, values[i])
         IN  WriteLoopPrevAfterInsert(m2, s, p, values, i + 1,
                                      Append(prev, Get(m2, s, p + i - 1)))

RECURSIVE WriteLoop(_, _, _, _, _, _)
\* The array::from_fn of Memory::write, from index i on: inserts values[i] at
\* pointer + i and collects what insert returned (or zero).
WriteLoop(m, s, p, values, i, prev) ==
    IF i > Len(values) THEN [data |-> m, prev_data |-> prev]
    ELSE WriteLoop(Insert(m, <<s, p + i - 1>>, values[i]), s, p, values, i + 1,
                   Append(prev, Get(m, s, p + i - 1)))

\* read that treats address space 0 as stored memory.
ReadValuesNoImmediate(m, s, p, n) == RangeArray(m, s, p, n)

\* The values of Memory::read: in address space 0 the pointer itself, N times
\* (N = 1 there), else the stored window.
ReadValues(m, s, p, n) ==
    IF s = 0 THEN [i \in 1 .. n |-> FromCanonicalU32(p)] ELSE RangeArray(m, s, p, n)

\* last_record_id without the - 1: the index of the next entry.
LastRecordIdNext(l) == Len(l)

\* Memory::last_record_id
LastRecordId(l) == Len(l) - 1

\* The Read entry that logs one cell whatever N is.
ReadEntryLenOne(s, p, n) == [kind |-> "Read", address_space |-> s, pointer |-> p, len |-> 1]

\* MemoryLogEntry::Read { address_space, pointer, len: N }
ReadEntry(s, p, n) == [kind |-> "Read", address_space |-> s, pointer |-> p, len |-> n]

\* MemoryLogEntry::Write { address_space, pointer, data: values.to_vec() }
WriteEntry(s, p, values) == [kind |-> "Write", address_space |-> s, pointer |-> p, data |-> values]

\* MemoryLogEntry::IncrementTimestampBy(amount)
IncrementEntry(amount) == [kind |-> "IncrementTimestampBy", amount |-> amount]

\* The arrays of length n a write is called with.
WriteArrays(n) == {[i \in 1 .. n |-> b + i - 1] : b \in Bases}

\* The images a Memory is built from; the empty one is Memory::new().
Images ==
    { EmptyMap,
      [a \in {<<0, 0>>, <<1, 0>>, <<1, 1>>, <<1, 3>>} |->
          IF a = <<0, 0>> THEN 9 ELSE IF a = <<1, 0>> THEN 7 ELSE IF a = <<1, 1>> THEN 0 ELSE 8] }

\* The record of a call: what it was called with, how it ended, what it returned.
Call(op, s, p, n, values, amount, outcome, rid, out) ==
    [op |-> op, address_space |-> s, pointer |-> p, n |-> n, values |-> values,
     amount |-> amount, outcome |-> outcome, rid |-> rid, out |-> out]

NoCall == Call("none", 0, 0, 0, <<>>, Wide(0), "ok", -1, <<>>)

(***************************************************************************)
(* Memory.                                                                 *)
(***************************************************************************)
\* Memory::from_image that starts from an empty map, as Memory::new does.
FromImageNew(img) ==
    [data |-> EmptyMap, log |-> <<>>, timestamp |-> Wide(INITIAL_TIMESTAMP + 1)]

\* Memory::from_image that carries on from a timestamp of an earlier segment.
FromImageStaleTimestamp(img) ==
    [data |-> img, log |-> <<>>, timestamp |-> Wide(INITIAL_TIMESTAMP + 2)]

\* Memory::from_image(image)
FromImage(img) ==
    [data |-> img, log |-> <<>>, timestamp |-> Wide(INITIAL_TIMESTAMP + 1)]

\* Memory::new / Memory::from_image
MemInit ==
    /\ image \in Images
    /\ data = FromImage(image).data
    /\ log = FromImage(image).log
    /\ timestamp = FromImage(image).timestamp
    /\ overflow_checks \in BOOLEAN
    /\ panicked = FALSE
    /\ calls = 0
    /\ last = NoCall
    /\ accesses = <<>>

\* A panic: the call ends here and the Memory is used no more.
Panic(d, l, call) ==
    /\ panicked' = TRUE
    /\ data' = d
    /\ log' = l
    /\ UNCHANGED <<timestamp, accesses>>
    /\ last' = call

\* The tail of write and of read: self.timestamp += 1, then the return of
\* (self.last_record_id(), values).
Return(d, l, call) ==
    IF Overflows(timestamp, Wide(1)) /\ overflow_checks
    THEN Panic(d, l, [call EXCEPT !.outcome = "overflow"])
    ELSE /\ timestamp' = WrappingAdd(timestamp, Wide(1))
         /\ data' = d
         /\ log' = l
         /\ last' = [call EXCEPT !.rid = LastRecordId(l)]
         /\ accesses' = Append(accesses, [call EXCEPT !.rid = LastRecordId(l)])
         /\ UNCHANGED panicked

\* Memory::write::<N>(address_space, pointer, values)
Write(s, p, n, values) ==
    /\ ~panicked
    /\ calls < MaxCalls
    /\ calls' = calls + 1
    /\ UNCHANGED <<image, overflow_checks, hintVars, treeVars, aluVars, segVars, nopVars, faVars, vhVars, jalVars>>
    /\ IF ~IsPowerOfTwo(n)
       THEN Panic(data, log, Call("write", s, p, n, values, Wide(0), "assert_power_of_two", -1, <<>>))
       ELSE LET w == WriteLoop(data, s, p, values, 1, <<>>)
                l == Append(log, WriteEntry(s, p, values))
            IN  Return(w.data, l, Call("write", s, p, n, values, Wide(0), "ok", -1, w.prev_data))

\* Memory::read::<N>(address_space, pointer)
Read(s, p, n) ==
    /\ ~panicked
    /\ calls < MaxCalls
    /\ calls' = calls + 1
    /\ UNCHANGED <<image, overflow_checks, hintVars, treeVars, aluVars, segVars, nopVars, faVars, vhVars, jalVars>>
    /\ IF ~IsPowerOfTwo(n)
       THEN Panic(data, log, Call("read", s, p, n, <<>>, Wide(0), "assert_power_of_two", -1, <<>>))
       ELSE LET l == Append(log, ReadEntry(s, p, n))
            IN  IF s = 0 /\ n # 1
                THEN Panic(data, l, Call("read", s, p, n, <<>>, Wide(0), "assert_eq_n_1", -1, <<>>))
                ELSE Return(data, l, Call("read", s, p, n, <<>>, Wide(0), "ok", -1,
                                          ReadValues(data, s, p, n)))

\* Memory::increment_timestamp_by(amount)
IncrementTimestampBy(amount) ==
    /\ ~panicked
    /\ calls < MaxCalls
    /\ calls' = calls + 1
    /\ UNCHANGED <<image, overflow_checks, accesses, hintVars, treeVars, aluVars, segVars, nopVars, faVars, vhVars, jalVars>>
    /\ IF Overflows(timestamp, amount) /\ overflow_checks
       THEN /\ panicked' = TRUE
            /\ last' = Call("increment_timestamp_by", 0, 0, 0, <<>>, amount, "overflow", -1, <<>>)
            /\ UNCHANGED <<data, log, timestamp>>
       ELSE /\ timestamp' = WrappingAdd(timestamp, amount)
            /\ log' = Append(log, IncrementEntry(amount))
            /\ last' = Call("increment_timestamp_by", 0, 0, 0, <<>>, amount, "ok", -1, <<>>)
            /\ UNCHANGED <<data, panicked>>

\* Memory::get(address_space, pointer)
GetCall(s, p) ==
    /\ ~panicked
    /\ calls < MaxCalls
    /\ calls' = calls + 1
    /\ last' = Call("get", s, p, 1, <<>>, Wide(0), "ok", -1, <<Get(data, s, p)>>)
    /\ UNCHANGED <<image, data, log, timestamp, overflow_checks, panicked, accesses, hintVars, treeVars, aluVars, segVars, nopVars, faVars, vhVars, jalVars>>

MemNext ==
    \/ \E s \in AddressSpaces, p \in Pointers, n \in Lens : \E values \in WriteArrays(n) :
          Write(s, p, n, values)
    \/ \E s \in AddressSpaces, p \in Pointers, n \in Lens : Read(s, p, n)
    \/ \E amount \in Amounts : IncrementTimestampBy(amount)
    \/ \E s \in AddressSpaces, p \in Pointers : GetCall(s, p)

(***************************************************************************)
(* The hint-store core chip.                                               *)
(***************************************************************************)
RECURSIVE SeqsUpTo(_)
\* The sequences over HintVals of length at most n.
SeqsUpTo(n) ==
    IF n = 0 THEN {<<>>}
    ELSE LET shorter == SeqsUpTo(n - 1)
         IN  shorter \cup {Append(q, v) : q \in {x \in shorter : Len(x) = n - 1}, v \in HintVals}

NoResult == [from_pc |-> 0, result |-> [kind |-> "none"]]

\* The error that carries the pc after the failing instruction.
HintOutOfBoundsNextPc(from_pc) == [kind |-> "HintOutOfBounds", pc |-> from_pc + 4]

\* ExecutionError::HintOutOfBounds { pc: from_pc }
HintOutOfBounds(from_pc) == [kind |-> "HintOutOfBounds", pc |-> from_pc]

\* The streams the chip is set up with (set_streams), before any instruction.
HintInit ==
    /\ hint_stream \in SeqsUpTo(MaxHintLen)
    /\ range_requests = <<>>
    /\ hint_result = NoResult
    /\ hint_initial = hint_stream
    /\ hint_written = <<>>

\* The state of the Memory while the hint-store chip is looked at alone.
MemIdle ==
    /\ image = EmptyMap
    /\ data = EmptyMap
    /\ log = <<>>
    /\ timestamp = Wide(INITIAL_TIMESTAMP + 1)
    /\ overflow_checks = FALSE
    /\ panicked = FALSE
    /\ calls = 0
    /\ last = NoCall
    /\ accesses = <<>>

\* The state of the hint stream while the Memory is looked at alone.
HintIdle ==
    /\ hint_stream = <<>>
    /\ range_requests = <<>>
    /\ hint_result = NoResult
    /\ hint_initial = <<>>
    /\ hint_written = <<>>

RECURSIVE PopFrontNReversed(_, _, _)
\* n pops whose results fill the array from its last position to its first.
PopFrontNReversed(q, n, acc) ==
    IF n = 0 THEN [stream |-> q, data |-> acc]
    ELSE PopFrontNReversed(Tail(q), n - 1, <<Head(q)>> \o acc)

RECURSIVE PopFrontN(_, _, _)
\* array::from_fn(|_| hint_stream.pop_front().unwrap()): n pops, in order.
PopFrontN(q, n, acc) ==
    IF n = 0 THEN [stream |-> q, data |-> acc]
    ELSE PopFrontN(Tail(q), n - 1, Append(acc, Head(q)))

\* Rv32HintStoreCoreChip::execute_instruction(_instruction, from_pc, _reads)
ExecuteInstruction(from_pc) ==
    /\ UNCHANGED <<memVars, treeVars, aluVars, segVars, nopVars, faVars, vhVars, jalVars>>
    /\ IF Len(hint_stream) < RV32_REGISTER_NUM_LIMBS
       THEN /\ hint_result' = [from_pc |-> from_pc, result |-> HintOutOfBounds(from_pc)]
            /\ UNCHANGED <<hint_stream, range_requests, hint_initial, hint_written>>
       ELSE LET popped == PopFrontN(hint_stream, RV32_REGISTER_NUM_LIMBS, <<>>)
                write_data == popped.data
            IN  /\ hint_stream' = popped.stream
                /\ range_requests' = range_requests \o
                       [i \in 1 .. (RV32_REGISTER_NUM_LIMBS \div 2) |->
                           <<write_data[2 * i - 1], write_data[2 * i]>>]
                /\ hint_result' = [from_pc |-> from_pc,
                                   result |-> [kind |-> "Ok", to_pc |-> "None",
                                               writes |-> <<write_data>>,
                                               record |-> [data |-> write_data]]]
                /\ hint_written' = Append(hint_written, write_data)
                /\ UNCHANGED hint_initial

HintNext == \E i \in 0 .. MaxPcIndex : ExecuteInstruction(4 * i)

(***************************************************************************)
(* The memory merkle tree.                                                 *)
(***************************************************************************)
\* The geometries: as_height and address_height with an overall height of at
\* most MaxHeight.
Dimensions ==
    {d \in [as_height : 0 .. MaxHeight, address_height : 0 .. MaxHeight] :
        d.as_height + d.address_height <= MaxHeight}

RECURSIVE Pow2(_)
\* 1 << n
Pow2(n) == IF n = 0 THEN 1 ELSE 2 * Pow2(n - 1)

\* MemoryDimensions::overall_height
OverallHeight(d) == d.as_height + d.address_height

\* MemoryDimensions::label_to_index((address_space, block))
LabelToIndex(d, label) == (label[1] - AS_OFFSET) * Pow2(d.address_height) + label[2]

\* The addresses the geometry d has room for.
TreeAddresses(d) ==
    {<<s, p>> : s \in AS_OFFSET .. (AS_OFFSET + Pow2(d.as_height) - 1),
                p \in 0 .. (CHUNK * Pow2(d.address_height) - 1)}

RECURSIVE SubsetsUpTo(_, _)
\* The subsets of S with at most k elements.
SubsetsUpTo(S, k) ==
    IF k = 0 THEN {{}}
    ELSE LET smaller == SubsetsUpTo(S, k - 1)
         IN  smaller \cup {A \cup {x} : A \in smaller, x \in S}

\* The final memory images tree_from_memory is handed for the geometry d.
TreeImages(d) == UNION {[A -> TreeVals] : A \in SubsetsUpTo(TreeAddresses(d), MaxEntries)}

\* The orders in which memory.iter() can go through the entries of a map.
IterationOrders(m) ==
    {o \in [1 .. Cardinality(DOMAIN m) -> DOMAIN m] :
        \A i, j \in 1 .. Cardinality(DOMAIN m) : i # j => o[i] # o[j]}

\* [F::zero(); CHUNK]
ZeroChunk == [i \in 1 .. CHUNK |-> Zero]

\* hasher.hash(values): a function that sends different arguments to
\* different results, and never to the result of a compress.
Hash(values) == <<1>> \o values

\* hasher.compress(left, right): a function that sends different arguments
\* to different results.
Compress(left, right) == <<2, Len(left)>> \o left \o right

\* MemoryNode::hash that hashes the values of a Leaf when it is asked.
NodeHashHashesLeaf(node) == IF node.kind = "Leaf" THEN Hash(node.values) ELSE node.hash

\* MemoryNode::hash
NodeHash(node) == IF node.kind = "Leaf" THEN node.values ELSE node.hash

\* MemoryNode::new_leaf; id names the instance built.
NewLeaf(values, id) == [kind |-> "Leaf", id |-> id, values |-> values]

\* NonLeaf { hash, left, right } built from two children; id names the instance.
NonLeaf(left, right, id) ==
    [kind |-> "NonLeaf", id |-> id, hash |-> Compress(NodeHash(left), NodeHash(right)),
     left |-> left, right |-> right]

RECURSIVE ConstructUniformNoCompress(_, _, _)
\* construct_uniform whose NonLeaf takes its child's hash as its own.
ConstructUniformNoCompress(height, leaf_value, next) ==
    IF height = 0 THEN [node |-> NewLeaf(leaf_value, next), next |-> next + 1]
    ELSE LET child == ConstructUniformNoCompress(height - 1, leaf_value, next)
         IN  [node |-> [NonLeaf(child.node, child.node, child.next)
                            EXCEPT !.hash = NodeHash(child.node)],
              next |-> child.next + 1]

RECURSIVE ConstructUniformShallow(_, _, _)
\* construct_uniform that stops one level early.
ConstructUniformShallow(height, leaf_value, next) ==
    IF height <= 1 THEN [node |-> NewLeaf(leaf_value, next), next |-> next + 1]
    ELSE LET child == ConstructUniformShallow(height - 1, leaf_value, next)
         IN  [node |-> NonLeaf(child.node, child.node, child.next), next |-> child.next + 1]

RECURSIVE ConstructUniformTwoChildren(_, _, _)
\* construct_uniform that builds its left and its right child one by one.
ConstructUniformTwoChildren(height, leaf_value, next) ==
    IF height = 0 THEN [node |-> NewLeaf(leaf_value, next), next |-> next + 1]
    ELSE LET left == ConstructUniformTwoChildren(height - 1, leaf_value, next)
             right == ConstructUniformTwoChildren(height - 1, leaf_value, left.next)
         IN  [node |-> NonLeaf(left.node, right.node, right.next), next |-> right.next + 1]

RECURSIVE ConstructUniform(_, _, _)
\* MemoryNode::construct_uniform(height, leaf_value, hasher). The instances
\* built are numbered from next on; the child is built once and both left
\* and right are that one instance.
ConstructUniform(height, leaf_value, next) ==
    IF height = 0 THEN [node |-> NewLeaf(leaf_value, next), next |-> next + 1]
    ELSE LET child == ConstructUniform(height - 1, leaf_value, next)
         IN  [node |-> NonLeaf(child.node, child.node, child.next), next |-> child.next + 1]

\* The leaf value of an empty range, left unhashed.
UniformLeafValueRaw == ZeroChunk

\* let leaf_value = hasher.hash(&[F::zero(); CHUNK])
UniformLeafValue == Hash(ZeroChunk)

\* memory.range(from..from + (1 << height)).next().is_none()
RangeIsEmpty(memory, height, from) ==
    \A i \in DOMAIN memory : ~(from <= i /\ i < from + Pow2(height))

RECURSIVE FromMemoryAbsentUnhashed(_, _, _, _)
\* from_memory whose leaf of an absent chunk holds the zero chunk itself.
FromMemoryAbsentUnhashed(memory, height, from, next) ==
    IF height = 0
    THEN LET values == IF from \in DOMAIN memory THEN Hash(memory[from]) ELSE ZeroChunk
         IN  [node |-> NewLeaf(values, next), next |-> next + 1]
    ELSE IF RangeIsEmpty(memory, height, from)
    THEN ConstructUniform(height, UniformLeafValue, next)
    ELSE LET midpoint == from + Pow2(height - 1)
             left == FromMemoryAbsentUnhashed(memory, height - 1, from, next)
             right == FromMemoryAbsentUnhashed(memory, height - 1, midpoint, left.next)
         IN  [node |-> NonLeaf(left.node, right.node, right.next), next |-> right.next + 1]

RECURSIVE FromMemory(_, _, _, _)
\* MemoryNode::from_memory(memory, height, from, hasher)
FromMemory(memory, height, from, next) ==
    IF height = 0
    THEN LET values == IF from \in DOMAIN memory THEN memory[from] ELSE ZeroChunk
         IN  [node |-> NewLeaf(Hash(values), next), next |-> next + 1]
    ELSE IF RangeIsEmpty(memory, height, from)
    THEN ConstructUniform(height, UniformLeafValue, next)
    ELSE LET midpoint == from + Pow2(height - 1)
             left == FromMemory(memory, height - 1, from, next)
             right == FromMemory(memory, height - 1, midpoint, left.next)
         IN  [node |-> NonLeaf(left.node, right.node, right.next), next |-> right.next + 1]

\* The position of a pointer in its chunk, counted from the chunk's end.
ChunkPositionMirrored(pointer) == CHUNK - (pointer % CHUNK)

\* chunk[(pointer % CHUNK)]: the position of a pointer in its chunk.
ChunkPosition(pointer) == (pointer % CHUNK) + 1

RECURSIVE Partition(_, _, _, _, _)
\* The loop of tree_from_memory over memory.iter(), taken in the given
\* order from its k-th entry on: memory_partition.entry(index)
\* .or_insert([F::zero(); CHUNK])[pointer % CHUNK] = value.
Partition(memory, order, d, k, memory_partition) ==
    IF k > Len(order) THEN memory_partition
    ELSE LET address_space == order[k][1]
             pointer == order[k][2]
             label == <<address_space, pointer \div CHUNK>>
             index == LabelToIndex(d, label)
             chunk == IF index \in DOMAIN memory_partition
                      THEN memory_partition[index] ELSE ZeroChunk
         IN  Partition(memory, order, d, k + 1,
                 Insert(memory_partition, index,
                        [chunk EXCEPT ![ChunkPosition(pointer)] = memory[order[k]]]))

\* Before tree_from_memory has been called.
NoTree ==
    [done |-> FALSE, order |-> <<>>, memory_partition |-> EmptyMap,
     root |-> NewLeaf(<<>>, 0), allocated |-> 0]

\* A geometry and a final memory image.
TreeInit ==
    /\ tree_dims \in Dimensions
    /\ tree_image \in TreeImages(tree_dims)
    /\ tree_out = NoTree

\* The tree variables while another component is looked at alone.
TreeIdle ==
    /\ tree_dims = [as_height |-> 0, address_height |-> 0]
    /\ tree_image = EmptyMap
    /\ tree_out = NoTree

\* MemoryNode::tree_from_memory(memory_dimensions, memory, hasher), with the
\* map iterated in the given order.
TreeFromMemory(order) ==
    /\ ~tree_out.done
    /\ LET memory_partition == Partition(tree_image, order, tree_dims, 1, EmptyMap)
           built == FromMemory(memory_partition, OverallHeight(tree_dims), 0, 0)
       IN  tree_out' = [done |-> TRUE, order |-> order,
                        memory_partition |-> memory_partition,
                        root |-> built.node, allocated |-> built.next]
    /\ UNCHANGED <<tree_dims, tree_image, memVars, hintVars, aluVars, segVars, nopVars, faVars, vhVars, jalVars>>

TreeNext == \E order \in IterationOrders(tree_image) : TreeFromMemory(order)

(***************************************************************************)
(* The base ALU core chip.                                                 *)
(***************************************************************************)
\* enum AluOpcode, in the order of its discriminants.
AluOpcodeNames == <<"ADD", "SUB", "XOR", "OR", "AND">>

\* AluOpcode::from_usize
AluFromUsize(n) == AluOpcodeNames[n + 1]

\* The arrays of limbs the two reads hold.
AluOperands == [1 .. NUM_LIMBS -> LimbVals] \cup BitPatterns

\* x.as_canonical_u32(): the canonical representative of a field element.
AsCanonicalU32(x) == x % FieldOrder

RECURSIVE BitwiseOp(_, _, _)
\* The bitwise operation of the u32 x and y whose bits are given by the
\* table op (op[2 * bit of x + bit of y + 1]).
BitwiseOp(op, x, y) ==
    IF x = 0 /\ y = 0 THEN 0
    ELSE op[2 * (x % 2) + (y % 2) + 1] + 2 * BitwiseOp(op, x \div 2, y \div 2)

\* x ^ y
BitXor(x, y) == BitwiseOp(<<0, 1, 1, 0>>, x, y)

\* x | y
BitOr(x, y) == BitwiseOp(<<0, 1, 1, 1>>, x, y)

\* x & y
BitAnd(x, y) == BitwiseOp(<<0, 0, 0, 1>>, x, y)

\* solve_add without the carry into the next limb.
SolveAddNoCarry(x, y) == [i \in 1 .. NUM_LIMBS |-> (x[i] + y[i]) % Pow2(LIMB_BITS)]

RECURSIVE SolveAddFrom(_, _, _, _, _)
\* The loop of solve_add from limb i on, with the carry of the limb before.
SolveAddFrom(x, y, i, carry, z) ==
    IF i > NUM_LIMBS THEN z
    ELSE LET zi == x[i] + y[i] + carry
         IN  SolveAddFrom(x, y, i + 1, zi \div Pow2(LIMB_BITS),
                          Append(z, BitAnd(zi, Pow2(LIMB_BITS) - 1)))

\* solve_add::<NUM_LIMBS, LIMB_BITS>(x, y)
SolveAdd(x, y) == SolveAddFrom(x, y, 1, 0, <<>>)

RECURSIVE SolveSubtractFrom(_, _, _, _, _)
\* The loop of solve_subtract from limb i on, with the borrow of the limb before.
SolveSubtractFrom(x, y, i, carry, z) ==
    IF i > NUM_LIMBS THEN z
    ELSE LET rhs == y[i] + carry
         IN  IF x[i] >= rhs
             THEN SolveSubtractFrom(x, y, i + 1, 0, Append(z, x[i] - rhs))
             ELSE SolveSubtractFrom(x, y, i + 1, 1, Append(z, x[i] + Pow2(LIMB_BITS) - rhs))

\* solve_subtract::<NUM_LIMBS, LIMB_BITS>(x, y)
SolveSubtract(x, y) == SolveSubtractFrom(x, y, 1, 0, <<>>)

\* solve_xor that adds the limbs and drops the carry.
SolveXorAsAdd(x, y) == [i \in 1 .. NUM_LIMBS |-> (x[i] + y[i]) % Pow2(LIMB_BITS)]

\* solve_xor::<NUM_LIMBS, LIMB_BITS>(x, y)
SolveXor(x, y) == [i \in 1 .. NUM_LIMBS |-> BitXor(x[i], y[i])]

\* solve_or::<NUM_LIMBS, LIMB_BITS>(x, y)
SolveOr(x, y) == [i \in 1 .. NUM_LIMBS |-> BitOr(x[i], y[i])]

\* solve_and::<NUM_LIMBS, LIMB_BITS>(x, y)
SolveAnd(x, y) == [i \in 1 .. NUM_LIMBS |-> BitAnd(x[i], y[i])]

\* solve_alu::<NUM_LIMBS, LIMB_BITS>(opcode, x, y)
SolveAlu(opcode, x, y) ==
    CASE opcode = "ADD" -> SolveAdd(x, y)
      [] opcode = "SUB" -> SolveSubtract(x, y)
      [] opcode = "XOR" -> SolveXor(x, y)
      [] opcode = "OR" -> SolveOr(x, y)
      [] opcode = "AND" -> SolveAnd(x, y)

\* Before execute_instruction has been called.
NoAluResult ==
    [done |-> FALSE, to_pc |-> "None", writes |-> <<>>,
     record |-> [opcode |-> "ADD", a |-> <<>>, b |-> <<>>, c |-> <<>>]]

\* A chip, an instruction of the chip's opcode class and the two reads.
AluInit ==
    /\ alu_offset \in AluOffsets
    /\ alu_instr \in [opcode : {alu_offset + n : n \in 0 .. (Len(AluOpcodeNames) - 1)},
                      reads : AluOperands \X AluOperands]
    /\ xor_requests = <<>>
    /\ alu_out = NoAluResult

\* The ALU variables while another component is looked at alone.
AluIdle ==
    /\ alu_offset = 0
    /\ alu_instr = [opcode |-> 0, reads |-> <<<<>>, <<>>>>]
    /\ xor_requests = <<>>
    /\ alu_out = NoAluResult

\* BaseAluCoreChip::execute_instruction(instruction, _from_pc, reads)
AluExecuteInstruction ==
    /\ ~alu_out.done
    /\ LET local_opcode_index == AluFromUsize(alu_instr.opcode - alu_offset)
           reads == alu_instr.reads
           b == [i \in 1 .. NUM_LIMBS |-> AsCanonicalU32(reads[1][i])]
           c == [i \in 1 .. NUM_LIMBS |-> AsCanonicalU32(reads[2][i])]
           a == SolveAlu(local_opcode_index, b, c)
       IN  /\ xor_requests' = xor_requests \o
                  (IF local_opcode_index = "ADD" \/ local_opcode_index = "SUB"
                   THEN [i \in 1 .. NUM_LIMBS |-> <<a[i], a[i]>>]
                   ELSE [i \in 1 .. NUM_LIMBS |-> <<b[i], c[i]>>])
           /\ alu_out' = [done |-> TRUE, to_pc |-> "None",
                          writes |-> <<[i \in 1 .. NUM_LIMBS |-> FromCanonicalU32(a[i])]>>,
                          record |-> [opcode |-> local_opcode_index,
                                      a |-> [i \in 1 .. NUM_LIMBS |-> FromCanonicalU32(a[i])],
                                      b |-> reads[1], c |-> reads[2]]]
    /\ UNCHANGED <<alu_offset, alu_instr, memVars, hintVars, treeVars, segVars, nopVars, faVars, vhVars, jalVars>>

AluNext == AluExecuteInstruction

(***************************************************************************)
(* The execution loop and its segments.                                    *)
(***************************************************************************)
\* The instructions of a program: stores and loads of one cell.
SegInstructions ==
    {[op |-> "write", address_space |-> 1, pointer |-> p, value |-> v] :
        p \in Pointers, v \in {1, 2}}
    \cup {[op |-> "read", address_space |-> 1, pointer |-> 0, value |-> 0]}

\* The programs: at least one and at most MaxProgLen instructions, followed
\* by the terminate instruction.
SegPrograms == UNION {[1 .. k -> SegInstructions] : k \in 1 .. MaxProgLen}

\* The two configurations that are compared: a max_segment_len the program
\* exactly fits, and one that is larger by one.
SegRuns == {"fit", "larger"}

\* VmConfig.max_segment_len of a run.
MaxSegmentLen(r) == IF r = "fit" THEN Len(seg_program) ELSE Len(seg_program) + 1

\* The dispatch of one instruction on the Memory: write::<1> or read::<1>,
\* each with its log entry and its timestamp increment.
SegDispatch(mem, instr) ==
    IF instr.op = "write"
    THEN [data |-> WriteLoop(mem.data, instr.address_space, instr.pointer,
                             <<instr.value>>, 1, <<>>).data,
          log |-> Append(mem.log, WriteEntry(instr.address_space, instr.pointer,
                                             <<instr.value>>)),
          timestamp |-> WrappingAdd(mem.timestamp, Wide(1))]
    ELSE [data |-> mem.data,
          log |-> Append(mem.log, ReadEntry(instr.address_space, instr.pointer, 1)),
          timestamp |-> WrappingAdd(mem.timestamp, Wide(1))]

\* A run before its first instruction.
SegStart(img) ==
    [pc |-> 1, count |-> 0, segments |-> 0, memory |-> FromImage(img),
     done |-> FALSE, final |-> EmptyMap]

\* A program, an initial image, and the two runs at their start.
SegInit ==
    /\ seg_program \in SegPrograms
    /\ seg_image \in Images
    /\ seg_run = [r \in SegRuns |-> SegStart(seg_image)]

\* The loop's variables while another component is looked at alone.
SegIdle ==
    /\ seg_program = <<>>
    /\ seg_image = EmptyMap
    /\ seg_run = [r \in SegRuns |-> SegStart(EmptyMap)]

\* The segment has reached max_segment_len: execution is checkpointed and a
\* new segment begins with the same memory and a fresh log.
SegBoundary(r) ==
    /\ ~seg_run[r].done
    /\ seg_run[r].count = MaxSegmentLen(r)
    /\ seg_run' = [seg_run EXCEPT ![r].memory = FromImage(seg_run[r].memory.data),
                                  ![r].count = 0,
                                  ![r].segments = @ + 1]
    /\ UNCHANGED <<seg_program, seg_image, memVars, hintVars, treeVars, aluVars, nopVars, faVars, vhVars, jalVars>>

\* One step of the loop: the instruction at pc is dispatched.
SegExecute(r) ==
    /\ ~seg_run[r].done
    /\ seg_run[r].count < MaxSegmentLen(r)
    /\ seg_run[r].pc <= Len(seg_program)
    /\ seg_run' = [seg_run EXCEPT ![r].memory = SegDispatch(@, seg_program[seg_run[r].pc]),
                                  ![r].pc = @ + 1,
                                  ![r].count = @ + 1]
    /\ UNCHANGED <<seg_program, seg_image, memVars, hintVars, treeVars, aluVars, nopVars, faVars, vhVars, jalVars>>

\* The terminate instruction: the run ends and its Memory is finalized into
\* the final memory image.
SegTerminate(r) ==
    /\ ~seg_run[r].done
    /\ seg_run[r].count < MaxSegmentLen(r)
    /\ seg_run[r].pc > Len(seg_program)
    /\ seg_run' = [seg_run EXCEPT ![r].done = TRUE,
                                  ![r].final = seg_run[r].memory.data]
    /\ UNCHANGED <<seg_program, seg_image, memVars, hintVars, treeVars, aluVars, nopVars, faVars, vhVars, jalVars>>

SegNext ==
    \/ \E r \in SegRuns : SegBoundary(r)
    \/ \E r \in SegRuns : SegExecute(r)
    \/ \E r \in SegRuns : SegTerminate(r)

(***************************************************************************)
(* The NOP instruction of Rv32TerminateNopChip.                            *)
(***************************************************************************)
\* The execution states the run of NOPs starts from.
NopStartStates ==
    [pc : {FromCanonicalU32(4 * i) : i \in 0 .. MaxPcIndex}, timestamp : {1, 2, 3, 5, 8, 13, 21}]

\* A NOP that costs one timestamp.
NopFinalStateTick(from_state) ==
    [pc |-> FromCanonicalU32(from_state.pc + 4), timestamp |-> from_state.timestamp + 1]

\* The final state of a NOP executed from from_state.
NopFinalState(from_state) ==
    [pc |-> FromCanonicalU32(from_state.pc + 4), timestamp |-> from_state.timestamp]

\* A fresh tester and the state the run starts from.
NopInit ==
    /\ nop_state \in NopStartStates
    /\ nop_records = <<>>

\* The NOP variables while another component is looked at alone.
NopIdle ==
    /\ nop_state = [pc |-> 0, timestamp |-> 1]
    /\ nop_records = <<>>

\* tester.execute_with_pc(&mut chip, nop.clone(), state.pc), and
\* state = new_state, the final state of the last execution record.
NopExecute ==
    /\ Len(nop_records) < NUM_NOPS
    /\ nop_records' = Append(nop_records,
                             [from_state |-> nop_state, final_state |-> NopFinalState(nop_state)])
    /\ nop_state' = NopFinalState(nop_state)
    /\ UNCHANGED <<memVars, hintVars, treeVars, aluVars, segVars, faVars, vhVars, jalVars>>

NopNext == NopExecute

(***************************************************************************)
(* The trace of the field arithmetic chip.                                 *)
(***************************************************************************)
\* x + y in the field.
AddMod(x, y) == IF x >= FieldOrder - y THEN x - (FieldOrder - y) ELSE x + y

\* x - y in the field.
SubMod(x, y) == IF x >= y THEN x - y ELSE x + (FieldOrder - y)

RECURSIVE MulModBits(_, _)
\* x * y in the field, by the bits of y; each partial product is computed once.
MulModBits(x, y) ==
    IF y = 0 THEN 0
    ELSE CHOOSE r \in {AddMod(AddMod(h, h), IF y % 2 = 1 THEN x ELSE 0) :
                          h \in {MulModBits(x, y \div 2)}} : TRUE

\* x * y in the field.
MulMod(x, y) == CHOOSE r \in {MulModBits(a, b) : a \in {x}, b \in {y}} : TRUE

RECURSIVE Inverse(_)
\* y.inverse() of a non-zero y (of zero it panics): 1/y = -(p div y) / (p mod y).
Inverse(y) ==
    IF y = 1 THEN 1
    ELSE SubMod(0, MulMod(FieldOrder \div y, Inverse(FieldOrder % y)))

\* The field arithmetic opcodes, in the order of their discriminants.
FieldOpCodes == <<"FADD", "FSUB", "FMUL", "FDIV">>

\* op as u32
OpCodeAsU32(op) == BASE_OP + (CHOOSE k \in 0 .. 3 : FieldOpCodes[k + 1] = op)

\* The operations a program execution records.
ArithmeticOps ==
    {[opcode |-> "FADD", operand1 |-> 1, operand2 |-> 2],
     [opcode |-> "FSUB", operand1 |-> 1, operand2 |-> 2],
     [opcode |-> "FMUL", operand1 |-> 3, operand2 |-> FieldOrder - 1],
     [opcode |-> "FDIV", operand1 |-> 1, operand2 |-> 2],
     [opcode |-> "FDIV", operand1 |-> 1, operand2 |-> 0]}

\* T::from_bool
FromBool(b) == IF b THEN 1 ELSE 0

\* Whether generate_cols panics: y.inverse() of a zero y.
GenerateColsPanics(op, x, y) == op = "FDIV" /\ y = 0

\* generate_cols(op, x, y)
GenerateCols(op, x, y) ==
    LET opcode == OpCodeAsU32(op)
        opcode_value == opcode - BASE_OP
        opcode_lo == FromCanonicalU32(opcode_value % 2)
        opcode_hi == FromCanonicalU32(opcode_value \div 2)
        is_div == FromBool(op = "FDIV")
        is_mul == FromBool(op = "FMUL")
        sum_or_diff == SubMod(AddMod(x, y), MulMod(MulMod(2, opcode_lo), y))
        product == MulMod(x, y)
        quotient == IF y = 0 \/ op # "FDIV" THEN 0 ELSE MulMod(x, Inverse(y))
        divisor_inv == IF op # "FDIV" THEN 0 ELSE Inverse(y)
        z == AddMod(AddMod(MulMod(is_mul, product), MulMod(is_div, quotient)),
                    MulMod(SubMod(1, opcode_hi), sum_or_diff))
    IN  [io |-> [rcv_count |-> 1, opcode |-> FromCanonicalU32(opcode), x |-> x, y |-> y, z |-> z],
         aux |-> [opcode_lo |-> opcode_lo, opcode_hi |-> opcode_hi, is_mul |-> is_mul,
                  is_div |-> is_div, sum_or_diff |-> sum_or_diff, product |-> product,
                  quotient |-> quotient, divisor_inv |-> divisor_inv]]

\* FieldArithmeticCols::flatten
Flatten(cols) ==
    <<cols.io.rcv_count, cols.io.opcode, cols.io.x, cols.io.y, cols.io.z,
      cols.aux.opcode_lo, cols.aux.opcode_hi, cols.aux.is_mul, cols.aux.is_div,
      cols.aux.sum_or_diff, cols.aux.product, cols.aux.quotient, cols.aux.divisor_inv>>

\* FieldArithmeticCols::NUM_COLS
NUM_COLS == Len(Flatten(GenerateCols("FADD", 0, 0)))

\* FieldArithmeticCols::blank_row
BlankRow == [GenerateCols("FADD", 0, 0) EXCEPT !.io.rcv_count = 0]

RECURSIVE PowerOfTwoFrom(_, _)
\* The first of k, 2k, 4k, .. that is at least n.
PowerOfTwoFrom(n, k) == IF k >= n THEN k ELSE PowerOfTwoFrom(n, 2 * k)

\* next_power_of_two that is a power of two greater than n.
NextPowerOfTwoAbove(n) == PowerOfTwoFrom(n + 1, 1)

\* usize::next_power_of_two
NextPowerOfTwo(n) == PowerOfTwoFrom(n, 1)

RECURSIVE FlatMap(_, _)
\* .iter().flat_map(|op| generate_cols(..).flatten()).collect(), from the k-th op on.
FlatMap(ops, k) ==
    IF k > Len(ops) THEN <<>>
    ELSE Flatten(GenerateCols(ops[k].opcode, ops[k].operand1, ops[k].operand2))
         \o FlatMap(ops, k + 1)

\* empty_row.iter().cloned().cycle().take(n)
CycleTake(row, n) == [i \in 1 .. n |-> row[((i - 1) % Len(row)) + 1]]

\* Before generate_trace has been called.
NoTrace == [done |-> FALSE, panicked |-> FALSE, values |-> <<>>, width |-> 0]

\* A program execution with its recorded arithmetic operations.
FaInit ==
    /\ fa_ops \in UNION {[1 .. n -> ArithmeticOps] : n \in 0 .. MaxOps}
    /\ fa_trace = NoTrace

\* The trace variables while another component is looked at alone.
FaIdle ==
    /\ fa_ops = <<>>
    /\ fa_trace = NoTrace

\* FieldArithmeticAir::generate_trace(prog_exec)
GenerateTrace ==
    /\ ~fa_trace.done
    /\ IF \E k \in 1 .. Len(fa_ops) :
             GenerateColsPanics(fa_ops[k].opcode, fa_ops[k].operand1, fa_ops[k].operand2)
       THEN fa_trace' = [done |-> TRUE, panicked |-> TRUE, values |-> <<>>, width |-> 0]
       ELSE LET trace == FlatMap(fa_ops, 1)
                empty_row == Flatten(BlankRow)
                curr_height == Len(fa_ops)
                correct_height == NextPowerOfTwo(curr_height)
            IN  fa_trace' = [done |-> TRUE, panicked |-> FALSE,
                             values |-> trace \o CycleTake(empty_row,
                                            (correct_height - curr_height) * NUM_COLS),
                             width |-> NUM_COLS]
    /\ UNCHANGED fa_ops
    /\ UNCHANGED <<memVars, hintVars, treeVars, aluVars, segVars, nopVars, vhVars, jalVars>>

FaNext == GenerateTrace

(***************************************************************************)
(* BaseAluCoreAir::eval on the row generate_trace_row makes of a record.   *)
(***************************************************************************)
RECURSIVE AirCarryAsCommented(_, _, _, _, _)
\* The carries with the SUB carry of the comment: a[i] + b[i] - c[i].
AirCarryAsCommented(flag, a, b, c, i) ==
    LET carry_divide == Inverse(Pow2(LIMB_BITS))
        prev == IF i > 1 THEN AirCarryAsCommented(flag, a, b, c, i - 1) ELSE 0
    IN  IF flag = "ADD"
        THEN MulMod(carry_divide, AddMod(SubMod(AddMod(b[i], c[i]), a[i]), prev))
        ELSE MulMod(carry_divide, AddMod(SubMod(AddMod(a[i], b[i]), c[i]), prev))

RECURSIVE AirCarry(_, _, _, _, _)
\* carry_add[i] (flag "ADD") and carry_sub[i] (flag "SUB") of a row with the
\* limbs a, b, c: field elements, carry_divide being the inverse of
\* 2^LIMB_BITS (limbs are counted from 1).
AirCarry(flag, a, b, c, i) ==
    LET carry_divide == Inverse(Pow2(LIMB_BITS))
        prev == IF i > 1 THEN AirCarry(flag, a, b, c, i - 1) ELSE 0
    IN  IF flag = "ADD"
        THEN MulMod(carry_divide, AddMod(SubMod(AddMod(b[i], c[i]), a[i]), prev))
        ELSE MulMod(carry_divide, AddMod(SubMod(AddMod(a[i], c[i]), b[i]), prev))

\* The tuple sent to the XOR bus for limb i, OR being sent as a - b - c.
AirXorBusOrShort(opcode, a, b, c, i) ==
    LET xor_flag == FromBool(opcode = "XOR")
        or_flag == FromBool(opcode = "OR")
        and_flag == FromBool(opcode = "AND")
        bitwise == AddMod(AddMod(xor_flag, or_flag), and_flag)
        x == AddMod(MulMod(SubMod(1, bitwise), a[i]), MulMod(bitwise, b[i]))
        y == AddMod(MulMod(SubMod(1, bitwise), a[i]), MulMod(bitwise, c[i]))
        x_xor_y ==
            AddMod(AddMod(MulMod(xor_flag, a[i]),
                          MulMod(or_flag, SubMod(SubMod(a[i], b[i]), c[i]))),
                   MulMod(and_flag, SubMod(AddMod(b[i], c[i]), MulMod(2, a[i]))))
    IN  <<x, y, x_xor_y>>

\* The tuple (x, y, x_xor_y) sent to the XOR bus for limb i of a row with the
\* flag of opcode set and the limbs a, b, c.
AirXorBus(opcode, a, b, c, i) ==
    LET xor_flag == FromBool(opcode = "XOR")
        or_flag == FromBool(opcode = "OR")
        and_flag == FromBool(opcode = "AND")
        bitwise == AddMod(AddMod(xor_flag, or_flag), and_flag)
        x == AddMod(MulMod(SubMod(1, bitwise), a[i]), MulMod(bitwise, b[i]))
        y == AddMod(MulMod(SubMod(1, bitwise), a[i]), MulMod(bitwise, c[i]))
        x_xor_y ==
            AddMod(AddMod(MulMod(xor_flag, a[i]),
                          MulMod(or_flag, SubMod(SubMod(MulMod(2, a[i]), b[i]), c[i]))),
                   MulMod(and_flag, SubMod(AddMod(b[i], c[i]), MulMod(2, a[i]))))
    IN  <<x, y, x_xor_y>>

(***************************************************************************)
(* The vec-heap adapters: Rv32VecHeapAdapterChip and                       *)
(* Rv32VecHeapTwoReadsAdapterChip.                                         *)
(***************************************************************************)
\* The const generics of an adapter: Rv32VecHeapAdapterChip reads NUM_READS
\* blocks through each pointer, Rv32VecHeapTwoReadsAdapterChip reads
\* BLOCKS_PER_READ1 and BLOCKS_PER_READ2.
VhChips ==
    {g \in [chip : {"VecHeap", "TwoReads"}, blocks1 : 1 .. MaxBlocks, blocks2 : 1 .. MaxBlocks,
            writes : 1 .. MaxBlocks, READ_SIZE : {4}, WRITE_SIZE : {2, 4}] :
        g.chip = "VecHeap" => g.blocks1 = g.blocks2}

\* The instructions dispatched: operands a, b, c name registers, d = 1, e = 2.
VhInstructions ==
    {[a |-> 8, b |-> 0, c |-> 4, d |-> 1, e |-> 2],
     [a |-> 0, b |-> 4, c |-> 4, d |-> 1, e |-> 2],
     [a |-> 4, b |-> 4, c |-> 4, d |-> 1, e |-> 2]}

\* MemoryController::read and ::write: the access happens at the current
\* timestamp, which then advances by one.
MemoryAccess(memory, kind, address_space, pointer, len) ==
    [timestamp |-> memory.timestamp + 1,
     log |-> Append(memory.log, [kind |-> kind, address_space |-> address_space,
                                 pointer |-> pointer, len |-> len,
                                 timestamp |-> memory.timestamp])]

RECURSIVE HeapReads(_, _, _, _, _, _)
\* from_fn(|i| memory.read::<READ_SIZE>(e, F::from_canonical_u32(address + (i * READ_SIZE) as u32))),
\* blocks i, i + 1, .. below n.
HeapReads(memory, e, address, i, n, READ_SIZE) ==
    IF i >= n THEN memory
    ELSE HeapReads(MemoryAccess(memory, "read", e, FromCanonicalU32(address + i * READ_SIZE),
                                READ_SIZE),
                   e, address, i + 1, n, READ_SIZE)

RECURSIVE HeapWrites(_, _, _, _, _, _)
\* output.writes.map(|write| memory.write(e, read_record.rd_val +
\* F::from_canonical_u32((i * WRITE_SIZE) as u32), write)), blocks i, i + 1, ..
\* below n.
HeapWrites(memory, e, rd_val, i, n, WRITE_SIZE) ==
    IF i >= n THEN memory
    ELSE HeapWrites(MemoryAccess(memory, "write", e,
                                 (rd_val + FromCanonicalU32(i * WRITE_SIZE)) % FieldOrder,
                                 WRITE_SIZE),
                    e, rd_val, i + 1, n, WRITE_SIZE)

\* preprocess reading the register rd before rs2.
PreprocessRdFirst(memory, chip, instruction, registers) ==
    LET rs1 == MemoryAccess(memory, "read", instruction.d, instruction.b, RV32_REGISTER_NUM_LIMBS)
        rd == MemoryAccess(rs1, "read", instruction.d, instruction.a, RV32_REGISTER_NUM_LIMBS)
        rs2 == MemoryAccess(rd, "read", instruction.d, instruction.c, RV32_REGISTER_NUM_LIMBS)
        reads1 == HeapReads(rs2, instruction.e, registers[instruction.b], 0, chip.blocks1,
                            chip.READ_SIZE)
        reads2 == HeapReads(reads1, instruction.e, registers[instruction.c], 0, chip.blocks2,
                            chip.READ_SIZE)
    IN  [memory |-> reads2, rd_val |-> FromCanonicalU32(registers[instruction.a])]

\* preprocess(memory, instruction): the memory afterwards and the rd_val of
\* the read record.
Preprocess(memory, chip, instruction, registers) ==
    LET rs1 == MemoryAccess(memory, "read", instruction.d, instruction.b, RV32_REGISTER_NUM_LIMBS)
        rs2 == MemoryAccess(rs1, "read", instruction.d, instruction.c, RV32_REGISTER_NUM_LIMBS)
        rd == MemoryAccess(rs2, "read", instruction.d, instruction.a, RV32_REGISTER_NUM_LIMBS)
        reads1 == HeapReads(rd, instruction.e, registers[instruction.b], 0, chip.blocks1,
                            chip.READ_SIZE)
        reads2 == HeapReads(reads1, instruction.e, registers[instruction.c], 0, chip.blocks2,
                            chip.READ_SIZE)
    IN  [memory |-> reads2, rd_val |-> FromCanonicalU32(registers[instruction.a])]

\* The timestamp_delta the adapter AIR hands to the execution bridge: one
\* timestamp_pp() per memory bridge interaction.
AirTimestampDelta(chip) == 3 + chip.blocks1 + chip.blocks2 + chip.writes

\* ExecutionBridge::execute_and_increment_or_set_pc with (4, ctx.to_pc): the
\* next pc the AIR constrains.
AirNextPc(from_pc, to_pc) ==
    IF to_pc = <<>> THEN (from_pc + 4) % FieldOrder ELSE to_pc[1]

\* One instruction is about to be dispatched through an adapter.
VhInit ==
    /\ vh_instr \in [chip : VhChips, instruction : VhInstructions,
                     registers : [{0, 4, 8} -> {0, 64}],
                     from_state : [pc : {0, 4}, timestamp : {1, 7}]]
    /\ vh_memory = [timestamp |-> vh_instr.from_state.timestamp, log |-> <<>>]
    /\ vh_run = [phase |-> "start", rd_val |-> 0, to_pc |-> <<>>, to_state |-> [pc |-> 0, timestamp |-> 0]]

\* The adapter variables while another component is looked at alone.
VhIdle ==
    /\ vh_instr = [chip |-> [chip |-> "VecHeap", blocks1 |-> 1, blocks2 |-> 1, writes |-> 1,
                             READ_SIZE |-> 4, WRITE_SIZE |-> 4],
                   instruction |-> [a |-> 8, b |-> 0, c |-> 4, d |-> 1, e |-> 2],
                   registers |-> [r \in {0, 4, 8} |-> 0],
                   from_state |-> [pc |-> 0, timestamp |-> 1]]
    /\ vh_memory = [timestamp |-> 1, log |-> <<>>]
    /\ vh_run = [phase |-> "start", rd_val |-> 0, to_pc |-> <<>>, to_state |-> [pc |-> 0, timestamp |-> 0]]

\* VmAdapterChip::preprocess
VhPreprocess ==
    /\ vh_run.phase = "start"
    /\ LET r == Preprocess(vh_memory, vh_instr.chip, vh_instr.instruction, vh_instr.registers)
       IN  /\ vh_memory' = r.memory
           /\ vh_run' = [vh_run EXCEPT !.phase = "read", !.rd_val = r.rd_val]
    /\ UNCHANGED vh_instr
    /\ UNCHANGED <<memVars, hintVars, treeVars, aluVars, segVars, nopVars, faVars, jalVars>>

\* The core executes between preprocess and postprocess; the to_pc of its
\* output is None (<<>>) or Some(pc) (<<pc>>).
VhCoreExecute ==
    /\ vh_run.phase = "read"
    /\ \E to_pc \in {<<>>, <<0>>, <<8>>, <<64>>} :
          vh_run' = [vh_run EXCEPT !.phase = "executed", !.to_pc = to_pc]
    /\ UNCHANGED <<vh_instr, vh_memory>>
    /\ UNCHANGED <<memVars, hintVars, treeVars, aluVars, segVars, nopVars, faVars, jalVars>>

\* VmAdapterChip::postprocess
VhPostprocess ==
    /\ vh_run.phase = "executed"
    /\ LET memory == HeapWrites(vh_memory, vh_instr.instruction.e, vh_run.rd_val, 0,
                                vh_instr.chip.writes, vh_instr.chip.WRITE_SIZE)
       IN  /\ vh_memory' = memory
           /\ vh_run' = [vh_run EXCEPT
                            !.phase = "done",
                            !.to_state = [pc |-> vh_instr.from_state.pc + 4,
                                          timestamp |-> memory.timestamp]]
    /\ UNCHANGED vh_instr
    /\ UNCHANGED <<memVars, hintVars, treeVars, aluVars, segVars, nopVars, faVars, jalVars>>

VhNext == VhPreprocess \/ VhCoreExecute \/ VhPostprocess

(***************************************************************************)
(* The native JAL core chip and its AIR.                                   *)
(***************************************************************************)
\* execute_instruction requesting the next instruction, as if b were the pc step.
ExecuteJalFallThrough(from_pc, b) ==
    [to_pc |-> <<AsCanonicalU32(AddMod(FromCanonicalU32(from_pc), DEFAULT_PC_STEP))>>,
     writes |-> <<<<FromCanonicalU32(from_pc + DEFAULT_PC_STEP)>>>>,
     record |-> [imm |-> b]]

\* The output and the record of JalCoreChip::execute_instruction for a JAL
\* with immediate b at from_pc: to_pc is Some(..), there is one write of one
\* value.
ExecuteJal(from_pc, b) ==
    [to_pc |-> <<AsCanonicalU32(AddMod(FromCanonicalU32(from_pc), b))>>,
     writes |-> <<<<FromCanonicalU32(from_pc + DEFAULT_PC_STEP)>>>>,
     record |-> [imm |-> b]]

\* JalCoreChip::generate_trace_row
JalTraceRow(record) == [imm |-> record.imm, is_valid |-> 1]

\* JalCoreAir::eval on a row, from_pc being a field element: the to_pc, the
\* reads and the writes of the AdapterAirContext.
JalEval(cols, from_pc) ==
    [to_pc |-> <<AddMod(from_pc, cols.imm)>>,
     reads |-> <<>>,
     writes |-> <<<<AddMod(from_pc, FromCanonicalU32(DEFAULT_PC_STEP))>>>>,
     is_valid |-> cols.is_valid, immediate |-> cols.imm]

\* The JAL variables while another component is looked at alone.
JalIdle ==
    /\ jal_instr = [from_pc |-> 0, b |-> 0, debug_assertions |-> FALSE]
    /\ jal_out = [done |-> FALSE, panicked |-> FALSE, output |-> <<>>]

\* A JAL about to be executed: from_pc is a u32, b a field element; the
\* build checks debug assertions or not.
JalInit ==
    /\ jal_instr \in [from_pc : {0, 4, 8, 12, FieldOrder - 5, FieldOrder - 4, FieldOrder - 1},
                      b : {0, 4, 8, FieldOrder - 8, FieldOrder - 4, FieldOrder - 1},
                      debug_assertions : BOOLEAN]
    /\ jal_out = [done |-> FALSE, panicked |-> FALSE, output |-> <<>>]

\* JalCoreChip::execute_instruction(instruction, from_pc, _reads);
\* F::from_canonical_u32 of a value that is not below the modulus fails a
\* debug assertion, and reduces it where those are not checked.
JalExecuteInstruction ==
    /\ ~jal_out.done
    /\ IF jal_instr.debug_assertions /\ jal_instr.from_pc + DEFAULT_PC_STEP >= FieldOrder
       THEN jal_out' = [done |-> TRUE, panicked |-> TRUE, output |-> <<>>]
       ELSE jal_out' = [done |-> TRUE, panicked |-> FALSE,
                        output |-> <<ExecuteJal(jal_instr.from_pc, jal_instr.b)>>]
    /\ UNCHANGED jal_instr
    /\ UNCHANGED <<memVars, hintVars, treeVars, aluVars, segVars, nopVars, faVars, vhVars>>

(***************************************************************************)
(* Specifications.                                                         *)
(***************************************************************************)
Init == MemInit /\ HintIdle /\ TreeIdle /\ AluIdle /\ SegIdle /\ NopIdle /\ FaIdle /\ VhIdle /\ JalIdle

Next == MemNext

Spec == Init /\ [][Next]_vars

HintSpecInit == MemIdle /\ HintInit /\ TreeIdle /\ AluIdle /\ SegIdle /\ NopIdle /\ FaIdle /\ VhIdle /\ JalIdle

HintSpecNext == HintNext

SpecHint == HintSpecInit /\ [][HintSpecNext]_vars

TreeSpecInit == MemIdle /\ HintIdle /\ TreeInit /\ AluIdle /\ SegIdle /\ NopIdle /\ FaIdle /\ VhIdle /\ JalIdle

TreeSpecNext == TreeNext

SpecTree == TreeSpecInit /\ [][TreeSpecNext]_vars

AluSpecInit == MemIdle /\ HintIdle /\ TreeIdle /\ AluInit /\ SegIdle /\ NopIdle /\ FaIdle /\ VhIdle /\ JalIdle

AluSpecNext == AluNext

SpecAlu == AluSpecInit /\ [][AluSpecNext]_vars

SegSpecInit == MemIdle /\ HintIdle /\ TreeIdle /\ AluIdle /\ SegInit /\ NopIdle /\ FaIdle /\ VhIdle /\ JalIdle

SegSpecNext == SegNext

SpecSeg == SegSpecInit /\ [][SegSpecNext]_vars

NopSpecInit == MemIdle /\ HintIdle /\ TreeIdle /\ AluIdle /\ SegIdle /\ NopInit /\ FaIdle /\ VhIdle /\ JalIdle

NopSpecNext == NopNext

SpecNop == NopSpecInit /\ [][NopSpecNext]_vars

FaSpecInit == MemIdle /\ HintIdle /\ TreeIdle /\ AluIdle /\ SegIdle /\ NopIdle /\ FaInit /\ VhIdle /\ JalIdle

SpecFa == FaSpecInit /\ [][FaNext]_vars

VhSpecInit == MemIdle /\ HintIdle /\ TreeIdle /\ AluIdle /\ SegIdle /\ NopIdle /\ FaIdle /\ VhInit /\ JalIdle

SpecVh == VhSpecInit /\ [][VhNext]_vars

JalSpecInit == MemIdle /\ HintIdle /\ TreeIdle /\ AluIdle /\ SegIdle /\ NopIdle /\ FaIdle /\ VhIdle /\ JalInit

SpecJal == JalSpecInit /\ [][JalExecuteInstruction]_vars

(***************************************************************************)
(* Properties of Memory (checked under Spec).                              *)
(***************************************************************************)
\* Whether the last call is a read or write that returned.
Returned(c) == c.op \in {"read", "write"} /\ c.outcome = "ok"

RECURSIVE LastWritten(_, _, _)
\* The value the most recent Write among the first k log entries put at
\* (s, q); without one, the image's value there; without that, zero.
LastWritten(k, s, q) ==
    IF k = 0 THEN (IF <<s, q>> \in DOMAIN image THEN image[<<s, q>>] ELSE 0)
    ELSE LET e == log[k]
         IN  IF /\ e.kind = "Write"
                /\ e.address_space = s
                /\ e.pointer <= q
                /\ q < e.pointer + Len(e.data)
             THEN e.data[q - e.pointer + 1]
             ELSE LastWritten(k - 1, s, q)

\* C1: a read of N cells in an address space other than 0 returns, at each
\* offset i, the value of the most recent write that covers (s, p + i); for
\* a cell no write covers, the value the Memory was built with, which is
\* zero after Memory::new().
C1_ReadAfterWrite ==
    (last.op = "read" /\ last.outcome = "ok" /\ last.address_space # 0) =>
        /\ Len(last.out) = last.n
        /\ \A i \in 1 .. last.n :
              last.out[i] = LastWritten(Len(log), last.address_space, last.pointer + i - 1)

\* A 4-cell read at pointer 0 that follows a 2-cell write at pointer 1 over the
\* image 7, 0, -, 8: old and new values at their offsets.
C1_Witness ==
    /\ last.op = "read" /\ last.outcome = "ok" /\ last.address_space = 1
    /\ last.pointer = 0 /\ last.n = 4
    /\ Len(log) = 2 /\ log[1] = [kind |-> "Write", address_space |-> 1, pointer |-> 1, data |-> <<5, 6>>]
    /\ image # EmptyMap
    /\ last.out = <<7, 5, 6, 8>>

\* C2: a read of one cell from address space 0 at p returns p itself,
\* whatever is stored at (0, p); a read of more than one cell from address
\* space 0 panics.
C2_AddressSpaceZero ==
    (last.op = "read" /\ last.address_space = 0) =>
        /\ (last.n = 1 /\ last.outcome = "ok") => last.out = <<last.pointer>>
        /\ last.n = 1 => last.outcome \in {"ok", "overflow"}
        /\ last.n > 1 => (panicked /\ last.outcome \in {"assert_power_of_two", "assert_eq_n_1"})

\* A read of (0, 0) after a write of 5 to (0, 0): the read returns 0.
C2_Witness ==
    /\ last.op = "read" /\ last.outcome = "ok" /\ last.address_space = 0 /\ last.n = 1
    /\ last.pointer = 0
    /\ Len(log) = 2 /\ log[1].kind = "Write" /\ log[1].address_space = 0
    /\ data[<<0, 0>>] = 5
    /\ last.out = <<0>>

\* C3: read and write panic at the power-of-two assertion exactly when N is
\* not one of 1, 2, 4, 8, 16, ..; is_power_of_two accepts exactly those
\* among 0 .. MaxPow.
C3_PowerOfTwo ==
    /\ \A n \in 0 .. MaxPow : IsPowerOfTwo(n) <=> n \in {1, 2, 4, 8, 16}
    /\ last.op \in {"read", "write"} =>
          (last.outcome = "assert_power_of_two" <=> last.n \notin {1, 2, 4, 8, 16})

\* A write of 3 cells that panicked, as the second call.
C3_Witness ==
    /\ last.op = "write" /\ last.n = 3 /\ last.outcome = "assert_power_of_two"
    /\ panicked /\ calls = 2

RECURSIVE CountAccesses(_)
\* The number of Read and Write entries among the first k log entries.
CountAccesses(k) ==
    IF k = 0 THEN 0
    ELSE CountAccesses(k - 1) + (IF log[k].kind \in {"Read", "Write"} THEN 1 ELSE 0)

RECURSIVE SumAmounts(_)
\* The sum of the amounts of the IncrementTimestampBy entries among the first
\* k log entries, as a pair of halves.
SumAmounts(k) ==
    IF k = 0 THEN Wide(0)
    ELSE IF log[k].kind = "IncrementTimestampBy"
         THEN AddWide(SumAmounts(k - 1), log[k].amount)
         ELSE SumAmounts(k - 1)

\* C4: while no call has panicked, timestamp = INITIAL_TIMESTAMP + 1 + the
\* number of Read and Write entries + the sum of the increment amounts.
C4_TimestampFormula ==
    ~panicked =>
        timestamp = AddWide(Wide(INITIAL_TIMESTAMP + 1),
                            AddWide(Wide(CountAccesses(Len(log))), SumAmounts(Len(log))))

\* The log entry a call that returned appends.
EntryOf(c) ==
    CASE c.op = "read" -> [kind |-> "Read", address_space |-> c.address_space,
                           pointer |-> c.pointer, len |-> c.n]
      [] c.op = "write" -> [kind |-> "Write", address_space |-> c.address_space,
                            pointer |-> c.pointer, data |-> c.values]
      [] c.op = "increment_timestamp_by" -> [kind |-> "IncrementTimestampBy", amount |-> c.amount]

\* C5: a read, write or increment_timestamp_by that returns appends to the
\* log exactly one entry, of its variant and with its arguments; no call
\* changes or removes an earlier entry.
C5_LogAppendOnly ==
    [][/\ (last'.op \in {"read", "write", "increment_timestamp_by"} /\ last'.outcome = "ok")
            => log' = Append(log, EntryOf(last'))
       /\ Len(log') >= Len(log)
       /\ SubSeq(log', 1, Len(log)) = log]_vars

\* A 2-cell read logged after an increment by 2.
C5_Witness ==
    /\ Len(log) = 2
    /\ log[1] = [kind |-> "IncrementTimestampBy", amount |-> <<0, 2>>]
    /\ log[2] = [kind |-> "Read", address_space |-> 1, pointer |-> 1, len |-> 2]
    /\ last.op = "read" /\ last.outcome = "ok"

\* C6: no call leaves the timestamp lower than it was.
C6_TimestampMonotone == [][~LessWide(timestamp', timestamp)]_vars

\* C7: the RecordId of every read and write that returned is the index of
\* the log entry that call appended: the ids are strictly increasing in call
\* order, the last one is the last index of the log when the call returns,
\* and each indexes the entry of its call.
C7_RecordIds ==
    /\ \A k \in 1 .. Len(accesses) :
          /\ accesses[k].rid \in 0 .. Len(log) - 1
          /\ log[accesses[k].rid + 1] = EntryOf(accesses[k])
    /\ \A j, k \in 1 .. Len(accesses) : j < k => accesses[j].rid < accesses[k].rid
    /\ Returned(last) => (last.rid = Len(log) - 1 /\ last = accesses[Len(accesses)])

\* A read that follows an increment: its RecordId is 1, not 0.
C7_Witness ==
    /\ Returned(last) /\ last.rid = 1
    /\ log[1].kind = "IncrementTimestampBy"
    /\ Len(accesses) = 1

\* The addresses of the window of a call.
Window(c) == {<<c.address_space, c.pointer + i - 1>> : i \in 1 .. c.n}

\* C8: a write that returns hands back, at each offset i, the value (s, p + i)
\* held before the call (zero if absent); after it (s, p + i) holds
\* values[i] and every cell outside the window is as it was.
C8_Write ==
    [][(last'.op = "write" /\ last'.outcome = "ok") =>
          LET c == last'
          IN  /\ Len(c.out) = c.n
              /\ \A i \in 1 .. c.n :
                    LET a == <<c.address_space, c.pointer + i - 1>>
                    IN  /\ c.out[i] = (IF a \in DOMAIN data THEN data[a] ELSE 0)
                        /\ a \in DOMAIN data'
                        /\ data'[a] = c.values[i]
              /\ DOMAIN data' = (DOMAIN data) \cup Window(c)
              /\ \A a \in (DOMAIN data) \ Window(c) : data'[a] = data[a]]_vars

\* A 4-cell write at (1, 0) over the image 7, 0, -, 8: the previous data has
\* the stored values and zero for the absent cell.
C8_Witness ==
    /\ last.op = "write" /\ last.outcome = "ok" /\ last.address_space = 1
    /\ last.pointer = 0 /\ last.n = 4
    /\ last.out = <<7, 0, 0, 8>>
    /\ last.values = <<5, 6, 7, 8>>
    /\ data[<<1, 2>>] = 7 /\ data[<<0, 0>>] = 9

\* C9: get changes neither data nor log nor timestamp and returns the stored
\* value or zero; read never changes data.
C9_LookupsPure ==
    [][/\ last'.op = "get" =>
             /\ UNCHANGED <<data, log, timestamp>>
             /\ LET a == <<last'.address_space, last'.pointer>>
                IN  last'.out = <<IF a \in DOMAIN data THEN data[a] ELSE 0>>
       /\ last'.op = "read" => data' = data]_vars

\* A get of an absent address that returned zero and inserted nothing, after a
\* read of a window that holds an absent address.
C9_Witness ==
    /\ last.op = "get" /\ last.address_space = 1 /\ last.pointer = 1
    /\ last.out = <<0>>
    /\ <<1, 1>> \notin DOMAIN data
    /\ Len(log) = 1 /\ log[1].kind = "Read" /\ log[1].address_space = 1
    /\ log[1].len = 2 /\ log[1].pointer = 0

(***************************************************************************)
(* Properties of the hint-store core chip (checked under SpecHint).        *)
(***************************************************************************)
\* C10: execute_instruction on a hint stream of fewer than
\* RV32_REGISTER_NUM_LIMBS elements returns HintOutOfBounds with the from_pc
\* it was called with and leaves the stream (and the lookup requests) as they
\* were.
C10_HintOutOfBounds ==
    [][Len(hint_stream) < 4 =>
          /\ hint_result'.result = [kind |-> "HintOutOfBounds", pc |-> hint_result'.from_pc]
          /\ hint_stream' = hint_stream
          /\ range_requests' = range_requests]_vars

\* The error at pc 8 on a stream of 3 elements left by an earlier execution.
C10_Witness ==
    /\ hint_result.result.kind = "HintOutOfBounds"
    /\ hint_result.result.pc = 8
    /\ Len(hint_stream) = 3
    /\ Len(range_requests) = 2

RECURSIVE Concat(_)
\* The concatenation of a sequence of words.
Concat(words) == IF words = <<>> THEN <<>> ELSE Head(words) \o Concat(Tail(words))

\* C11: the hint stream is consumed first in, first out. A successful
\* HINT_STOREW takes exactly the first RV32_REGISTER_NUM_LIMBS elements off
\* the front, hands them on in that order (data[i] is the i-th one removed)
\* and leaves the rest of the stream as it was; so at every moment the words
\* written so far, put end to end, followed by what is left of the stream,
\* are the stream the chip was set up with.
C11_HintFifo ==
    /\ Concat(hint_written) \o hint_stream = hint_initial
    /\ \A k \in 1 .. Len(hint_written) :
          /\ Len(hint_written[k]) = RV32_REGISTER_NUM_LIMBS
          /\ \A i \in 1 .. RV32_REGISTER_NUM_LIMBS :
                hint_written[k][i] = hint_initial[(k - 1) * RV32_REGISTER_NUM_LIMBS + i]
    /\ hint_result.result.kind = "Ok" =>
          /\ hint_written # <<>>
          /\ hint_result.result.writes = <<hint_written[Len(hint_written)]>>
          /\ hint_result.result.record.data = hint_written[Len(hint_written)]

\* Two instructions have succeeded on a stream whose elements differ within
\* and between the two words.
C11_Witness ==
    /\ Len(hint_written) = 2
    /\ hint_written[1] = <<0, 1, 2, 0>>
    /\ hint_written[2] = <<2, 1, 1, 0>>
    /\ hint_stream = <<>>

(***************************************************************************)
(* Properties of the memory merkle tree (checked under SpecTree).          *)
(***************************************************************************)
RECURSIVE Strip(_)
\* A tree without the names of its instances: what == compares.
Strip(node) ==
    IF node.kind = "Leaf" THEN [kind |-> "Leaf", values |-> node.values]
    ELSE [kind |-> "NonLeaf", hash |-> node.hash,
          left |-> Strip(node.left), right |-> Strip(node.right)]

\* The content of the chunk with the given index, read off the image: at
\* position j the value of the address (as, index's block * CHUNK + j - 1),
\* zero where the image has none.
DenseChunk(index) ==
    [j \in 1 .. CHUNK |->
        Get(tree_image,
            AS_OFFSET + (index \div Pow2(tree_dims.address_height)),
            (index % Pow2(tree_dims.address_height)) * CHUNK + j - 1)]

\* Whether no entry of the image lies in the chunks from .. from + 2^height - 1.
Unpopulated(height, from) ==
    \A i \in from .. (from + Pow2(height) - 1) : \A a \in DOMAIN tree_image :
        ~(/\ a[1] = AS_OFFSET + (i \div Pow2(tree_dims.address_height))
          /\ a[2] \div CHUNK = i % Pow2(tree_dims.address_height))

RECURSIVE DenseHash(_, _)
\* The hash of the tree that is built node by node with no short cut.
DenseHash(height, from) ==
    IF height = 0 THEN Hash(DenseChunk(from))
    ELSE Compress(DenseHash(height - 1, from),
                  DenseHash(height - 1, from + Pow2(height - 1)))

\* C12: for every height h >= 0, tree_from_memory over an entirely empty
\* image with overall height h is, structurally, the tree
\* construct_uniform(h, hasher.hash(zero chunk)).
C12_EmptyIsUniform ==
    (tree_out.done /\ tree_image = EmptyMap) =>
        Strip(tree_out.root) =
            Strip(ConstructUniform(OverallHeight(tree_dims), Hash(ZeroChunk), 0).node)

\* The tree of the empty image at the largest height, two levels of
\* NonLeaf over the hashed zero chunk.
C12_Witness ==
    /\ tree_out.done
    /\ tree_image = EmptyMap
    /\ OverallHeight(tree_dims) = MaxHeight
    /\ tree_dims.as_height = 1
    /\ tree_out.root.kind = "NonLeaf"
    /\ tree_out.root.left.left.values = Hash(ZeroChunk)

RECURSIVE EmptySubtreesUniform(_, _, _)
\* Every subtree below node (at the given height, over the chunks from on)
\* whose chunks are all unpopulated has the hash of the uniform tree.
EmptySubtreesUniform(node, height, from) ==
    /\ Unpopulated(height, from) =>
          NodeHash(node) = NodeHash(ConstructUniform(height, Hash(ZeroChunk), 0).node)
    /\ height > 0 =>
          /\ node.kind = "NonLeaf"
          /\ EmptySubtreesUniform(node.left, height - 1, from)
          /\ EmptySubtreesUniform(node.right, height - 1, from + Pow2(height - 1))

\* C13: in the tree tree_from_memory builds, every subtree whose chunk range
\* has no populated chunk has the hash of construct_uniform(its height,
\* hash(zero chunk)), and the root hash is the root hash of the dense tree
\* that hashes every chunk and compresses every pair: the short cut never
\* changes the commitment.
C13_ShortCircuitSameHash ==
    tree_out.done =>
        /\ EmptySubtreesUniform(tree_out.root, OverallHeight(tree_dims), 0)
        /\ NodeHash(tree_out.root) = DenseHash(OverallHeight(tree_dims), 0)

\* One populated chunk in the left half of a tree of height 2: the right
\* half is cut short.
C13_Witness ==
    /\ tree_out.done
    /\ OverallHeight(tree_dims) = 2
    /\ DOMAIN tree_out.memory_partition = {1}
    /\ tree_out.memory_partition[1] = <<0, 1>>
    /\ Unpopulated(1, 2)
    /\ tree_out.root.right.kind = "NonLeaf"

RECURSIVE IsPerfect(_, _)
\* Whether node is a perfect binary tree of the given height.
IsPerfect(node, height) ==
    IF height = 0 THEN node.kind = "Leaf"
    ELSE /\ node.kind = "NonLeaf"
         /\ IsPerfect(node.left, height - 1)
         /\ IsPerfect(node.right, height - 1)

\* C14: every tree construct_uniform(h, ..) or tree_from_memory returns is a
\* perfect binary tree: the root has height h, a NonLeaf at height k > 0 has
\* two children of height k - 1, and the nodes at height 0 are Leaf.
C14_PerfectTree ==
    tree_out.done =>
        /\ IsPerfect(tree_out.root, OverallHeight(tree_dims))
        /\ \A h \in 0 .. MaxHeight :
              IsPerfect(ConstructUniform(h, NodeHash(tree_out.root), 0).node, h)

\* Two populated chunks in different address spaces of a tree of height 2.
C14_Witness ==
    /\ tree_out.done
    /\ tree_dims = [as_height |-> 1, address_height |-> 1]
    /\ DOMAIN tree_out.memory_partition = {0, 3}
    /\ tree_out.root.left.right.kind = "Leaf"
    /\ tree_out.root.right.left.kind = "Leaf"

RECURSIVE LeavesHashTheirValues(_)
\* Whether hash() of every Leaf below node is the hasher's hash of the
\* values the Leaf holds.
LeavesHashTheirValues(node) ==
    IF node.kind = "Leaf" THEN NodeHash(node) = Hash(node.values)
    ELSE /\ NodeHash(node) = node.hash
         /\ LeavesHashTheirValues(node.left)
         /\ LeavesHashTheirValues(node.right)

\* C15 as stated: hash() of a Leaf is the hash of the values the Leaf
\* holds, and hash() of a NonLeaf is the stored compression result.
C15_LeafHashOfValues == tree_out.done => LeavesHashTheirValues(tree_out.root)

RECURSIVE HashIsStored(_, _, _)
\* hash() of every node below node is what the node stores: for the Leaf of
\* chunk from, its values, which are the hash of the chunk's raw content;
\* for a NonLeaf, its hash field, the compression of its children's hashes.
HashIsStored(node, height, from) ==
    IF height = 0
    THEN /\ node.kind = "Leaf"
         /\ NodeHash(node) = node.values
         /\ node.values = Hash(DenseChunk(from))
    ELSE /\ node.kind = "NonLeaf"
         /\ NodeHash(node) = node.hash
         /\ node.hash = Compress(NodeHash(node.left), NodeHash(node.right))
         /\ HashIsStored(node.left, height - 1, from)
         /\ HashIsStored(node.right, height - 1, from + Pow2(height - 1))

\* C15: hash() returns what the node stores and hashes nothing itself: for a
\* Leaf its values unchanged, and tree_from_memory stores in the Leaf of a
\* chunk the hasher's hash of the chunk's raw content (the zero chunk where
\* nothing is populated); for a NonLeaf the stored compression of its two
\* children's hashes.
C15_NodeHash == tree_out.done => HashIsStored(tree_out.root, OverallHeight(tree_dims), 0)

\* A tree of height 1 over the chunks <<1, 1>> and <<0, 0>>.
C15_Witness ==
    /\ tree_out.done
    /\ tree_dims = [as_height |-> 0, address_height |-> 1]
    /\ tree_out.root.kind = "NonLeaf"
    /\ tree_out.root.left.values = Hash(<<1, 1>>)
    /\ tree_out.root.right.values = Hash(ZeroChunk)
    /\ NodeHash(tree_out.root.left) = <<1, 1, 1>>

RECURSIVE Instances(_)
\* The names of the instances below node.
Instances(node) ==
    IF node.kind = "Leaf" THEN {node.id}
    ELSE {node.id} \cup Instances(node.left) \cup Instances(node.right)

RECURSIVE UnpopulatedAt(_, _, _, _)
\* The instances that are the root of a subtree of height k over unpopulated
\* chunks only, below node (at the given height, over the chunks from on).
UnpopulatedAt(node, height, from, k) ==
    IF height = k THEN (IF Unpopulated(height, from) THEN {node.id} ELSE {})
    ELSE IF height < k THEN {}
    ELSE UnpopulatedAt(node.left, height - 1, from, k)
         \cup UnpopulatedAt(node.right, height - 1, from + Pow2(height - 1), k)

\* The number of populated chunks.
Populated == Cardinality(DOMAIN tree_out.memory_partition)

\* C16 as stated: all unpopulated subtrees of one height are one shared
\* instance, and the nodes allocated are at most populated chunks times the
\* tree height plus one uniform node for each level of the tree.
C16_Interned ==
    tree_out.done =>
        /\ \A k \in 0 .. OverallHeight(tree_dims) :
              Cardinality(UnpopulatedAt(tree_out.root, OverallHeight(tree_dims), 0, k)) <= 1
        /\ tree_out.allocated <=
              Populated * OverallHeight(tree_dims) + OverallHeight(tree_dims) + 1

RECURSIVE SharedWithin(_, _, _)
\* Below node, every NonLeaf over unpopulated chunks only has one instance
\* as both its children.
SharedWithin(node, height, from) ==
    height > 0 =>
        /\ Unpopulated(height, from) => node.left.id = node.right.id
        /\ SharedWithin(node.left, height - 1, from)
        /\ SharedWithin(node.right, height - 1, from + Pow2(height - 1))

RECURSIVE NodeCount(_, _)
\* One node for each level of a largest subtree over unpopulated chunks only,
\* one node for every Leaf and every NonLeaf above a populated chunk.
NodeCount(height, from) ==
    IF height = 0 \/ Unpopulated(height, from) THEN height + 1
    ELSE 1 + NodeCount(height - 1, from) + NodeCount(height - 1, from + Pow2(height - 1))

\* The larger of two numbers.
Max(a, b) == IF a >= b THEN a ELSE b

\* C16: a uniform zero subtree shares instances within itself only: both
\* children of each of its NonLeaf nodes are one instance, so it costs one
\* node for each of its levels. Unpopulated subtrees in different places are
\* built anew each time, so they are different instances of equal value. For
\* a tree of height H the nodes allocated are exactly the instances of the
\* tree, k + 1 for each largest unpopulated subtree of height k, and at most (H + 1)(H + 2)/2 for each populated chunk: the H + 1
\* nodes of its path and a uniform subtree of k + 1 nodes beside the path at
\* each height k < H (H + 1 nodes in all when no chunk is populated).
C16_SharedWithinUniform ==
    tree_out.done =>
        /\ SharedWithin(tree_out.root, OverallHeight(tree_dims), 0)
        /\ tree_out.allocated = Cardinality(Instances(tree_out.root))
        /\ 2 * tree_out.allocated <=
              Max(Populated, 1) * (OverallHeight(tree_dims) + 1) * (OverallHeight(tree_dims) + 2)
        /\ tree_out.allocated = NodeCount(OverallHeight(tree_dims), 0)

\* One populated chunk in a tree of height 2: six nodes, the uniform right
\* half shares its one Leaf, and the unpopulated Leaf beside the populated
\* one is another instance.
C16_Witness ==
    /\ tree_out.done
    /\ OverallHeight(tree_dims) = 2
    /\ DOMAIN tree_out.memory_partition = {0}
    /\ tree_out.allocated = 6
    /\ tree_out.root.right.left.id = tree_out.root.right.right.id
    /\ tree_out.root.left.right.id # tree_out.root.right.left.id

\* The index of the chunk of an address.
ChunkIndexOf(a) == LabelToIndex(tree_dims, <<a[1], a[2] \div CHUNK>>)

\* C17: tree_from_memory partitions the image by address alone. The value
\* of (as, pointer) is at position pointer mod CHUNK of the chunk labelled
\* (as, pointer div CHUNK); two addresses are in one chunk exactly when they
\* have the same as and the same pointer div CHUNK; the positions of a
\* chunk no entry fills are zero; and the partition is the same whatever
\* order the map is iterated in. (For the addresses the geometry has room
\* for, and the label-to-index function of the geometry.)
C17_PartitionByAddress ==
    tree_out.done =>
        /\ DOMAIN tree_out.memory_partition = {ChunkIndexOf(a) : a \in DOMAIN tree_image}
        /\ \A a \in DOMAIN tree_image :
              tree_out.memory_partition[ChunkIndexOf(a)][(a[2] % CHUNK) + 1] = tree_image[a]
        /\ \A a, b \in DOMAIN tree_image :
              (ChunkIndexOf(a) = ChunkIndexOf(b)) <=>
                  (a[1] = b[1] /\ a[2] \div CHUNK = b[2] \div CHUNK)
        /\ \A index \in DOMAIN tree_out.memory_partition :
              /\ Len(tree_out.memory_partition[index]) = CHUNK
              /\ \A j \in 1 .. CHUNK :
                    (\A a \in DOMAIN tree_image :
                        ~(ChunkIndexOf(a) = index /\ (a[2] % CHUNK) + 1 = j)) =>
                        tree_out.memory_partition[index][j] = Zero
        /\ \A order \in IterationOrders(tree_image) :
              Partition(tree_image, order, tree_dims, 1, EmptyMap) = tree_out.memory_partition

\* Two entries of one chunk, iterated with the higher pointer first.
C17_Witness ==
    /\ tree_out.done
    /\ tree_dims = [as_height |-> 1, address_height |-> 0]
    /\ tree_out.order = <<<<2, 1>>, <<2, 0>>>>
    /\ tree_image[<<2, 0>>] = 0
    /\ tree_image[<<2, 1>>] = 1
    /\ DOMAIN tree_out.memory_partition = {1}
    /\ tree_out.memory_partition[1] = <<0, 1>>

(***************************************************************************)
(* Properties of the base ALU core chip (checked under SpecAlu).           *)
(***************************************************************************)
\* The number the little-endian limbs stand for, as a pair of 16-bit halves.
ToWide(limbs) ==
    <<limbs[3] + Pow2(LIMB_BITS) * limbs[4], limbs[1] + Pow2(LIMB_BITS) * limbs[2]>>

\* Whether every limb is in [0, 2^LIMB_BITS).
InRange(limbs) ==
    /\ Len(limbs) = NUM_LIMBS
    /\ \A i \in 1 .. NUM_LIMBS : 0 <= limbs[i] /\ limbs[i] < Pow2(LIMB_BITS)

\* The two operands and the result of the executed instruction.
AluB == alu_instr.reads[1]

AluC == alu_instr.reads[2]

AluA == alu_out.writes[1]

\* C18: for ADD the result limbs are the little-endian limbs of
\* (X + Y) mod 2^(NUM_LIMBS * LIMB_BITS), for SUB those of (X - Y) mod the
\* same modulus (the number Z with Z + Y = X), every result limb is in
\* [0, 2^LIMB_BITS), and SUB(ADD(x, y), y) = x; ADD of [255,0,0,0] and
\* [1,0,0,0] is [0,1,0,0], and SUB of [0,1,0,0] and [1,0,0,0] is [255,0,0,0].
C18_AddSub ==
    /\ (alu_out.done /\ alu_out.record.opcode = "ADD") =>
          /\ InRange(AluA)
          /\ ToWide(AluA) = WrappingAdd(ToWide(AluB), ToWide(AluC))
          /\ SolveAlu("SUB", AluA, AluC) = AluB
    /\ (alu_out.done /\ alu_out.record.opcode = "SUB") =>
          /\ InRange(AluA)
          /\ WrappingAdd(ToWide(AluA), ToWide(AluC)) = ToWide(AluB)
    /\ alu_out.done =>
          /\ SolveAlu("ADD", <<255, 0, 0, 0>>, <<1, 0, 0, 0>>) = <<0, 1, 0, 0>>
          /\ SolveAlu("SUB", <<0, 1, 0, 0>>, <<1, 0, 0, 0>>) = <<255, 0, 0, 0>>

\* The ADD whose carry runs through every limb and out of the top one.
C18_Witness ==
    /\ alu_out.done
    /\ alu_out.record.opcode = "ADD"
    /\ AluB = <<255, 255, 255, 255>>
    /\ AluC = <<1, 0, 0, 0>>
    /\ AluA = <<0, 0, 0, 0>>

\* Bit k of the number v.
BitAt(v, k) == (v \div Pow2(k)) % 2

\* C19: for XOR, OR and AND, result limb i is the bitwise operation of limb
\* i of the two operands and of nothing else (0b1010 and 0b0110 give 0b1100,
\* 0b1110 and 0b0010), and the value execute_instruction hands on to be
\* written is exactly that result.
C19_Bitwise ==
    (alu_out.done /\ alu_out.record.opcode \in {"XOR", "OR", "AND"}) =>
        /\ InRange(AluA)
        /\ Len(alu_out.writes) = 1
        /\ alu_out.record.a = AluA
        /\ \A i \in 1 .. NUM_LIMBS : \A k \in 0 .. (LIMB_BITS - 1) :
              BitAt(AluA[i], k) =
                  CASE alu_out.record.opcode = "XOR" ->
                           (IF BitAt(AluB[i], k) # BitAt(AluC[i], k) THEN 1 ELSE 0)
                    [] alu_out.record.opcode = "OR" ->
                           (IF BitAt(AluB[i], k) = 1 \/ BitAt(AluC[i], k) = 1 THEN 1 ELSE 0)
                    [] alu_out.record.opcode = "AND" ->
                           (IF BitAt(AluB[i], k) = 1 /\ BitAt(AluC[i], k) = 1 THEN 1 ELSE 0)
        /\ SolveAlu("XOR", <<10, 10, 10, 10>>, <<6, 6, 6, 6>>) = <<12, 12, 12, 12>>
        /\ SolveAlu("OR", <<10, 10, 10, 10>>, <<6, 6, 6, 6>>) = <<14, 14, 14, 14>>
        /\ SolveAlu("AND", <<10, 10, 10, 10>>, <<6, 6, 6, 6>>) = <<2, 2, 2, 2>>

\* The XOR of operands whose limbs differ from each other.
C19_Witness ==
    /\ alu_out.done
    /\ alu_out.record.opcode = "XOR"
    /\ AluB = <<10, 6, 255, 128>>
    /\ AluC = <<6, 10, 128, 255>>
    /\ AluA = <<12, 12, 127, 127>>

(***************************************************************************)
(* Properties of the execution loop (checked under SpecSeg).               *)
(***************************************************************************)
\* C20: segmentation does not alter what a program computes: a program
\* whose instruction count exactly fits the maximum segment length ends
\* with the same final memory image as the same program run with a maximum
\* segment length one larger.
C20_SegmentationSameImage ==
    (seg_run["fit"].done /\ seg_run["larger"].done) =>
        seg_run["fit"].final = seg_run["larger"].final

\* Both runs of a two-store program over the non-empty image have ended:
\* the exact fit crossed a segment boundary and holds a fresh log, the
\* larger one did not.
C20_Witness ==
    /\ seg_run["fit"].done
    /\ seg_run["larger"].done
    /\ seg_run["fit"].segments = 1
    /\ seg_run["larger"].segments = 0
    /\ seg_run["fit"].memory.log = <<>>
    /\ Len(seg_run["larger"].memory.log) = 2
    /\ seg_image # EmptyMap
    /\ seg_run["fit"].final[<<1, 0>>] = 2
    /\ seg_run["fit"].final[<<1, 1>>] = 1
    /\ seg_run["fit"].final[<<1, 3>>] = 8

(***************************************************************************)
(* Further properties of Memory (checked under Spec).                      *)
(***************************************************************************)
\* The value the image holds at an address, zero where it holds none.
ImageValue(s, p) == IF <<s, p>> \in DOMAIN image THEN image[<<s, p>>] ELSE 0

C22_NopAdvancesPc ==
    /\ \A k \in 1 .. Len(nop_records) :
          /\ nop_records[k].final_state.pc = nop_records[k].from_state.pc + 4
          /\ nop_records[k].final_state.timestamp = nop_records[k].from_state.timestamp
          /\ k > 1 => nop_records[k].from_state = nop_records[k - 1].final_state
    /\ nop_records # <<>> =>
          /\ nop_state = nop_records[Len(nop_records)].final_state
          /\ nop_state.pc = nop_records[1].from_state.pc + 4 * Len(nop_records)
          /\ nop_state.timestamp = nop_records[1].from_state.timestamp

\* Five NOPs from (0, 1), as in test_nops_and_terminate.
C22_Witness ==
    /\ Len(nop_records) = NUM_NOPS
    /\ nop_records[1].from_state = [pc |-> 0, timestamp |-> 1]
    /\ nop_state = [pc |-> 20, timestamp |-> 1]

(***************************************************************************)
(* Properties of the field arithmetic trace (checked under SpecFa).        *)
(***************************************************************************)
\* The height of the matrix generate_trace returned.
TraceHeight == Len(fa_trace.values) \div fa_trace.width

\* Row i (from 0) of the matrix generate_trace returned.
TraceRow(i) == [j \in 1 .. fa_trace.width |-> fa_trace.values[i * fa_trace.width + j]]

\* C23: the matrix generate_trace returns has as height the smallest power
\* of two that is at least the number of recorded arithmetic operations (1
\* when there are none); row i, for i below the number of operations, is
\* generated from the i-th operation in order, and every other row is the
\* blank row. (generate_trace returns unless an operation is an FDIV by
\* zero, whose y.inverse() panics.)
C23_PaddedTrace ==
    /\ fa_trace.done =>
          (fa_trace.panicked <=>
              \E k \in 1 .. Len(fa_ops) :
                  fa_ops[k].opcode = "FDIV" /\ fa_ops[k].operand2 = 0)
    /\ (fa_trace.done /\ ~fa_trace.panicked) =>
          /\ fa_trace.width = 13
          /\ Len(fa_trace.values) = TraceHeight * fa_trace.width
          /\ \E e \in 0 .. MaxOps : TraceHeight = Pow2(e)
          /\ TraceHeight >= Len(fa_ops)
          /\ TraceHeight = 1 \/ TraceHeight < 2 * Len(fa_ops)
          /\ \A i \in 0 .. (TraceHeight - 1) :
                IF i < Len(fa_ops)
                THEN TraceRow(i) = Flatten(GenerateCols(fa_ops[i + 1].opcode,
                                                        fa_ops[i + 1].operand1,
                                                        fa_ops[i + 1].operand2))
                ELSE TraceRow(i) = Flatten(BlankRow)

\* Five operations give eight rows: the first is 1 - 2, the fifth 3 * (p - 1),
\* the last three are blank.
C23_Witness ==
    /\ fa_trace.done
    /\ ~fa_trace.panicked
    /\ Len(fa_ops) = 5
    /\ TraceHeight = 8
    /\ fa_ops[1].opcode = "FSUB"
    /\ TraceRow(0)[5] = FieldOrder - 1
    /\ fa_ops[5].opcode = "FMUL"
    /\ TraceRow(4)[5] = FieldOrder - 3
    /\ TraceRow(5) = TraceRow(7)
    /\ TraceRow(7)[1] = 0

(***************************************************************************)
(* Properties of the vec-heap adapters (checked under SpecVh).             *)
(***************************************************************************)
\* The accesses of blocks 0 .. n - 1 of the given size from address on.
BlockAccesses(kind, address, n, size) ==
    [i \in 1 .. n |-> [kind |-> kind, address_space |-> 2,
                       pointer |-> address + (i - 1) * size, len |-> size]]

\* A register read.
RegisterRead(pointer) ==
    [kind |-> "read", address_space |-> 1, pointer |-> pointer, len |-> 4]

\* The accesses of one instruction in the order the adapters are to make them.
ExpectedReads ==
    <<RegisterRead(vh_instr.instruction.b), RegisterRead(vh_instr.instruction.c),
      RegisterRead(vh_instr.instruction.a)>>
    \o BlockAccesses("read", vh_instr.registers[vh_instr.instruction.b],
                     vh_instr.chip.blocks1, vh_instr.chip.READ_SIZE)
    \o BlockAccesses("read", vh_instr.registers[vh_instr.instruction.c],
                     vh_instr.chip.blocks2, vh_instr.chip.READ_SIZE)

ExpectedWrites ==
    BlockAccesses("write", vh_instr.registers[vh_instr.instruction.a],
                  vh_instr.chip.writes, vh_instr.chip.WRITE_SIZE)

\* The log holds exactly the expected accesses, at consecutive timestamps
\* from the start of preprocess on.
LogIs(expected) ==
    /\ Len(vh_memory.log) = Len(expected)
    /\ \A k \in 1 .. Len(expected) :
          vh_memory.log[k] =
              [kind |-> expected[k].kind, address_space |-> expected[k].address_space,
               pointer |-> expected[k].pointer, len |-> expected[k].len,
               timestamp |-> vh_instr.from_state.timestamp + (k - 1)]

\* C24: one instruction through a vec-heap adapter accesses memory in this
\* order, one timestamp each: the registers rs1 (b), rs2 (c), rd (a) in
\* address space d; the heap blocks at rs1_val + i*READ_SIZE; those at
\* rs2_val + i*READ_SIZE; and, only after the core has executed, the heap
\* blocks written at rd_val + i*WRITE_SIZE. The state postprocess returns has
\* the start timestamp plus 3 + the blocks read + the blocks written, which
\* is the timestamp_delta of the adapter AIR.
C24_AccessOrder ==
    /\ vh_run.phase = "start" => vh_memory.log = <<>>
    /\ vh_run.phase \in {"read", "executed"} => LogIs(ExpectedReads)
    /\ vh_run.phase = "done" =>
          /\ LogIs(ExpectedReads \o ExpectedWrites)
          /\ vh_run.to_state.timestamp =
                vh_instr.from_state.timestamp + 3 + vh_instr.chip.blocks1
                + vh_instr.chip.blocks2 + vh_instr.chip.writes
          /\ vh_run.to_state.timestamp =
                vh_instr.from_state.timestamp + AirTimestampDelta(vh_instr.chip)
          /\ vh_instr.chip.chip = "VecHeap" =>
                vh_run.to_state.timestamp =
                    vh_instr.from_state.timestamp + 3 + 2 * vh_instr.chip.blocks1
                    + vh_instr.chip.writes

\* A two-reads adapter has read one block through rs1 and two through rs2,
\* rs1 and rs2 being different registers with different values, and written
\* two blocks.
C24_Witness ==
    /\ vh_run.phase = "done"
    /\ vh_instr.chip.chip = "TwoReads"
    /\ vh_instr.chip.blocks1 = 1
    /\ vh_instr.chip.blocks2 = 2
    /\ vh_instr.chip.writes = 2
    /\ vh_instr.instruction.b # vh_instr.instruction.c
    /\ vh_instr.registers[vh_instr.instruction.b] # vh_instr.registers[vh_instr.instruction.c]
    /\ Len(vh_memory.log) = 8
    /\ vh_memory.log[8].kind = "write"
    /\ vh_memory.log[8].pointer = vh_instr.registers[vh_instr.instruction.a] + vh_instr.chip.WRITE_SIZE

\* C26 (as claimed): the next pc postprocess returns is the next pc the
\* adapter AIR constrains: the core's to_pc when its output carries one,
\* from_state.pc + 4 otherwise.
C26_NextPcAsConstrained ==
    vh_run.phase = "done" =>
        vh_run.to_state.pc = AirNextPc(vh_instr.from_state.pc, vh_run.to_pc)

(***************************************************************************)
(* Properties of the base ALU core AIR on generated rows (under SpecAlu).  *)
(***************************************************************************)
\* The carry the AIR computes for limb i of the executed instruction's row,
\* and the one before it.
RowCarry(i) ==
    IF i = 0 THEN 0
    ELSE AirCarry(alu_out.record.opcode, alu_out.record.a, alu_out.record.b,
                  alu_out.record.c, i)

RowXorBus(i) ==
    AirXorBus(alu_out.record.opcode, alu_out.record.a, alu_out.record.b,
              alu_out.record.c, i)

\* C27: on the row of an executed instruction, the tuple (x, y, x_xor_y) the
\* AIR sends to the XOR bus for each limb is a valid XOR triple whose (x, y)
\* is the pair requested during execution: (a[i], a[i], 0) for ADD and SUB,
\* (b[i], c[i], b[i] XOR c[i]) for XOR, OR and AND.
C27_XorBusMatchesRequests ==
    alu_out.done =>
        /\ Len(xor_requests) = NUM_LIMBS
        /\ \A i \in 1 .. NUM_LIMBS :
              /\ RowXorBus(i)[3] = BitXor(RowXorBus(i)[1], RowXorBus(i)[2])
              /\ <<RowXorBus(i)[1], RowXorBus(i)[2]>> = xor_requests[i]
              /\ IF alu_out.record.opcode \in {"ADD", "SUB"}
                 THEN RowXorBus(i) = <<alu_out.record.a[i], alu_out.record.a[i], 0>>
                 ELSE RowXorBus(i) = <<AluB[i], AluC[i], BitXor(AluB[i], AluC[i])>>

\* An OR of operands whose limbs differ: the tuple of limb 1 is (10, 6, 12).
C27_Witness ==
    /\ alu_out.done
    /\ alu_out.record.opcode = "OR"
    /\ AluB = <<10, 6, 255, 128>>
    /\ AluC = <<6, 10, 128, 255>>
    /\ RowXorBus(1) = <<10, 6, 12>>
    /\ xor_requests[1] = <<10, 6>>

(***************************************************************************)
(* Rejected Memory calls (checked under Spec).                             *)
(***************************************************************************)
\* C28 (as claimed): a read or write rejected by a contract assertion (a
\* length that is not a power of two, or a read of more than one cell from
\* address space 0) leaves the data mapping, the access log and the timestamp
\* exactly as they were before the call.
C28_RejectedCallLeavesNoTrace ==
    [][(calls' = calls + 1 /\ last'.op \in {"read", "write"}
        /\ last'.outcome \in {"assert_power_of_two", "assert_eq_n_1"})
       => (data' = data /\ log' = log /\ timestamp' = timestamp)]_vars

(***************************************************************************)
(* Explicit zeros in the image (checked under SpecTree).                   *)
(***************************************************************************)
\* The addresses at which the image holds a non-zero value.
NonZeroAddresses == {a \in DOMAIN tree_image : tree_image[a] # 0}

\* The image without its explicit zeros: it agrees with the image when
\* absent entries read as zero.
SparseImage == [a \in NonZeroAddresses |-> tree_image[a]]

\* tree_from_memory of the image without its explicit zeros.
SparseTree ==
    LET order == SelectSeq(tree_out.order, LAMBDA a : a \in NonZeroAddresses)
    IN  FromMemory(Partition(SparseImage, order, tree_dims, 1, EmptyMap),
                   OverallHeight(tree_dims), 0, 0)

\* C29: images that agree when absent entries read as zero give structurally
\* equal trees with the same root hash: the tree of an image is the tree of
\* the image without its explicit zeros.
C29_ExplicitZerosSameTree ==
    tree_out.done =>
        /\ Strip(tree_out.root) = Strip(SparseTree.node)
        /\ NodeHash(tree_out.root) = NodeHash(SparseTree.node)

\* An image with an explicit zero and a non-zero value: its tree was built
\* with more nodes than that of the image without the zero.
C29_Witness ==
    /\ tree_out.done
    /\ NonZeroAddresses # {}
    /\ NonZeroAddresses # DOMAIN tree_image
    /\ tree_out.allocated > SparseTree.next
    /\ Strip(tree_out.root) = Strip(SparseTree.node)

(***************************************************************************)
(* Properties of the native JAL core chip (checked under SpecJal).         *)
(***************************************************************************)
\* What the AIR constrains for the row of the executed JAL.
JalConstrained ==
    JalEval(JalTraceRow(jal_out.output[1].record), FromCanonicalU32(jal_instr.from_pc))

\* C30: whenever from_pc + DEFAULT_PC_STEP is below the field modulus, a JAL
\* at from_pc with immediate b requests to_pc = from_pc + b in the field, as
\* a canonical u32, writes the single value from_pc + DEFAULT_PC_STEP and
\* reads nothing; both are what JalCoreAir::eval constrains for the row
\* generate_trace_row makes of the record (imm = b, is_valid = 1).
C30_JalAsConstrained ==
    (jal_out.done /\ jal_instr.from_pc + DEFAULT_PC_STEP < FieldOrder) =>
        /\ ~jal_out.panicked
        /\ Len(jal_out.output[1].to_pc) = 1
        /\ jal_out.output[1].to_pc[1] \in 0 .. (FieldOrder - 1)
        /\ SubMod(jal_out.output[1].to_pc[1], jal_instr.from_pc) = jal_instr.b
        /\ jal_out.output[1].writes = <<<<jal_instr.from_pc + DEFAULT_PC_STEP>>>>
        /\ JalConstrained.reads = <<>>
        /\ JalConstrained.immediate = jal_instr.b
        /\ JalConstrained.is_valid = 1
        /\ JalConstrained.to_pc = jal_out.output[1].to_pc
        /\ JalConstrained.writes = jal_out.output[1].writes

\* A jump back by 4 from pc 8: the immediate is p - 4 and the sum wraps
\* around the modulus to 4.
C30_Witness ==
    /\ jal_out.done
    /\ ~jal_out.panicked
    /\ jal_instr.from_pc = 8
    /\ jal_instr.b = FieldOrder - 4
    /\ jal_out.output[1].to_pc = <<4>>
    /\ jal_out.output[1].writes = <<<<12>>>>

====
